---- MODULE Spec2Model ----
(***************************************************************************)
(* Idempotent ingestion of SMS archives: the change tracker                *)
(* (etl/file_tracker.py), the pipeline driver (etl/run.py) and the MySQL   *)
(* loader (etl/loader.py).                                                 *)
(*                                                                         *)
(* An archive file is a sequence of SMS messages.  A run of                *)
(* run_enhanced_etl_pipeline is a process that walks through the steps of  *)
(* the function; every storage call may raise, and the process may be      *)
(* interrupted between any two steps.                                      *)
(***************************************************************************)
EXTENDS Integers, Sequences, FiniteSets, TLC

\* ------------------------------------------------------------------ bounds
MaxLen == 2        \* messages in one archive file
MaxRuns == 2       \* invocations of run_enhanced_etl_pipeline
MaxEdits == 2      \* modifications of the archive f1 by the environment
MaxFaults == 2     \* storage calls that raise, and interrupts of the process

Runs == 1..MaxRuns
Files == {"f1", "f2", "f3"}

\* ------------------------------------------------------- archive messages
\* An SMS element, described by what parse_message extracts from its body.
\*   body    the text of the message (its identity)
\*   parse   "ok": a kind matched and the amount was extracted,
\*           "unknown": _identify_message_type returns UNKNOWN,
\*           "fail": the kind's extractor returns None
\*   bytes   the number of bytes the element occupies in the file
\* the other fields are the ParsedTransaction fields the loader reads.
SmsPool ==
  { [body |-> "A", parse |-> "ok", bytes |-> 3, sender_phone |-> "", recipient_phone |-> "P1",
     transaction_id |-> "T1", financial_transaction_id |-> "", external_transaction_id |-> "E1",
     category |-> "PAYMENT_PERSONAL"],
    [body |-> "B", parse |-> "ok", bytes |-> 3, sender_phone |-> "", recipient_phone |-> "P2",
     transaction_id |-> "", financial_transaction_id |-> "", external_transaction_id |-> "E1",
     category |-> "PAYMENT_PERSONAL"],
    [body |-> "C", parse |-> "ok", bytes |-> 2, sender_phone |-> "P1", recipient_phone |-> "",
     transaction_id |-> "", financial_transaction_id |-> "F3", external_transaction_id |-> "",
     category |-> "TRANSFER_INCOMING"],
    [body |-> "D", parse |-> "unknown", bytes |-> 2, sender_phone |-> "", recipient_phone |-> "",
     transaction_id |-> "", financial_transaction_id |-> "", external_transaction_id |-> "",
     category |-> ""],
    [body |-> "E", parse |-> "fail", bytes |-> 1, sender_phone |-> "", recipient_phone |-> "",
     transaction_id |-> "", financial_transaction_id |-> "", external_transaction_id |-> "",
     category |-> ""] }

Code(m) ==
  CASE m.body = "E" -> 0 [] m.body = "A" -> 1 [] m.body = "B" -> 2 [] m.body = "C" -> 3
    [] OTHER -> 4

HashBase == 5
HashMod == 1000003

RECURSIVE st_size(_)
st_size(c) == IF c = << >> THEN 0 ELSE Head(c).bytes + st_size(Tail(c))

\* A digest folded over the content, chunk by chunk; it starts from a
\* non-zero state so that the length of the content enters the digest.
RECURSIVE hash_update(_, _)
hash_update(h, c) ==
  IF c = << >> THEN h
  ELSE hash_update((h * HashBase + Code(Head(c))) % HashMod, Tail(c))

calculate_file_hash(c) == hash_update(1, c)

InSeq(x, s) == \E k \in 1..Len(s) : s[k] = x

Sms(b) == CHOOSE m \in SmsPool : m.body = b
SecondArchive == << Sms("A") >>

\* ------------------------------------------------------------------ state
VARIABLES
  exists,           \* [Files -> BOOLEAN]   file_path.exists()
  content,          \* [Files -> Seq(SmsPool)]  the archive's SMS elements
  edits,            \* number of modifications of archives so far
  faults,           \* number of raised storage errors and interrupts so far
  processed_files,  \* [Files -> FileProcessingRecord]  table processed_files
  transactions,     \* committed rows of table transactions, in insertion order
  users,            \* committed phone numbers of table users
  categories,       \* committed names of table transaction_categories
  system_logs,      \* committed rows of table system_logs
  run,              \* [Runs -> locals of one invocation]
  message,          \* the text handed to EnhancedMTNParser.parse_message
  parser,           \* the EnhancedMTNParser and the position in parse_message
  TRANSACTION_CATEGORIES,  \* config.TRANSACTION_CATEGORIES: the pairs
                    \* << category, list object >> in the order of the dict
  lists,            \* [ListIds -> Seq(STRING)]  the list objects
  categorizer       \* the last call of the TransactionCategorizer

vars == << exists, content, edits, faults, processed_files, transactions, users,
           categories, system_logs, run, message, parser,
           TRANSACTION_CATEGORIES, lists, categorizer >>

NoRecord ==
  [present |-> FALSE, file_size |-> 0, file_hash |-> 0, records_processed |-> 0,
   processing_status |-> "", error_message |-> ""]

\* The counters of the dictionary run_enhanced_etl_pipeline returns with
\* status 'success'; the other returns carry a status and a message only.
NoSummary ==
  [total_parsed |-> 0, total_processed |-> 0, successfully_loaded |-> 0, loading_errors |-> 0]

NoCheck == [made |-> FALSE, decision |-> FALSE, present |-> FALSE, exists |-> FALSE, match |-> FALSE,
            raised |-> FALSE]

IdleRun ==
  [pc |-> "idle", file |-> "f1", status |-> "",
   db_transactions |-> << >>, i |-> 1,
   loaded_count |-> 0, error_count |-> 0, errors |-> << >>,
   pend_rows |-> << >>, pend_users |-> {}, pend_categories |-> {}, pend_logs |-> << >>,
   successfully_loaded |-> 0, exc |-> "",
   \* history of the invocation, read by the properties only
   chk |-> NoCheck, pre |-> NoRecord, rows0 |-> 0, logs0 |-> 0, seen |-> << >>,
   inserted |-> 0, duplicates |-> 0, committed |-> FALSE, logged |-> FALSE,
   aborted |-> FALSE, cause |-> "", marked |-> "", killed_at |-> "",
   sms_read |-> 0, summary |-> NoSummary]

\* An exception leaves the function: the handler of run_enhanced_etl_pipeline
\* has the exception only, the parse results and the loader are gone.
Raised(me, e) ==
  [me EXCEPT !.pc = "except", !.exc = e, !.db_transactions = << >>, !.i = 1,
             !.loaded_count = 0, !.error_count = 0, !.errors = << >>,
             !.pend_rows = << >>, !.pend_users = {}, !.pend_categories = {},
             !.pend_logs = << >>]

\* The locals of an invocation die with it; its results and history remain.
Ended(me, pc, status) ==
  [me EXCEPT !.pc = pc, !.status = status, !.db_transactions = << >>, !.i = 1,
             !.errors = << >>, !.pend_rows = << >>, !.pend_users = {},
             !.pend_categories = {}, !.pend_logs = << >>]

\* EnhancedMTNParser.__init__, and the locals of one call of parse_message
\* (message_type "" and transaction None until they are assigned).
None == [amount |-> 0, transaction_type |-> "", category |-> "", confidence |-> 0,
         recipient_match |-> FALSE, direction |-> "", sender_phone |-> << >>,
         transaction_id |-> << >>]

NewParser ==
  [pc |-> "idle", parsed_count |-> 0, error_count |-> 0, errors |-> << >>,
   message_type |-> "", transaction |-> None, returned |-> ""]

ParserUnchanged == UNCHANGED << message, parser >>

\* config.TRANSACTION_CATEGORIES as the module config defines it
DefaultCategories ==
  << << "DEPOSIT", << "deposit", "credit", "topup", "receive" >> >>,
     << "WITHDRAWAL", << "withdraw", "debit", "cashout", "send" >> >>,
     << "TRANSFER", << "transfer", "send_money", "mobile_money" >> >>,
     << "PAYMENT", << "payment", "bill", "utility", "merchant" >> >>,
     << "DATA_BUNDLE", << "data bundle", "data_bundle", "bundle", "internet", "data",
                          "mtn data", "yello", "*164*" >> >>,
     << "AIRTIME", << "airtime", "credit", "topup", "recharge" >> >>,
     << "QUERY", << "balance", "statement", "inquiry" >> >>,
     << "OTHER", << "other", "unknown", "misc" >> >> >>

\* The list objects: one per category of the config, the two lists the
\* callers of the rule operations hold, and the list add_custom_rule
\* creates for a category that has none.
CallerLists == << << "custom", "special" >>, << "new_deposit", "credit" >> >>
HeldByCaller == { Len(DefaultCategories) + k : k \in 1..Len(CallerLists) }
CreatedList == Len(DefaultCategories) + Len(CallerLists) + 1

\* TransactionCategorizer.__init__ and the import of the config
CategorizerConstructed ==
  /\ TRANSACTION_CATEGORIES =
       [k \in 1..Len(DefaultCategories) |-> << DefaultCategories[k][1], k >>]
  /\ lists = [i \in 1..CreatedList |->
               IF i <= Len(DefaultCategories) THEN DefaultCategories[i][2]
               ELSE IF i \in HeldByCaller THEN CallerLists[i - Len(DefaultCategories)]
               ELSE << >>]
  /\ categorizer =
       [calls |-> 0, op |-> "", category |-> "", keywords |-> << >>, before |-> << >>,
        transaction |-> << >>, returned |-> << >>]

CategorizerUnchanged == UNCHANGED << TRANSACTION_CATEGORIES, lists, categorizer >>

PipelineInit ==
  /\ exists = [f \in Files |-> f # "f3"]
  /\ content = [f \in Files |-> IF f = "f2" THEN SecondArchive ELSE << >>]
  /\ edits = 0
  /\ faults = 0
  /\ processed_files = [f \in Files |-> NoRecord]
  /\ transactions = << >>
  /\ users = {}
  /\ categories = {}
  /\ system_logs = << >>
  /\ run = [r \in Runs |-> IdleRun]

Init ==
  /\ PipelineInit
  /\ message = << >>
  /\ parser = NewParser
  /\ CategorizerConstructed

Final == {"done", "killed"}

\* n storage calls raise in this step
Raise(n) ==
  /\ faults + n <= MaxFaults
  /\ faults' = faults + n

N(b) == IF b THEN 1 ELSE 0

DbUnchanged == UNCHANGED << transactions, users, categories, system_logs >>
FilesUnchanged == UNCHANGED << exists, content, edits >>

\* ------------------------------------------------------------ environment
\* The archive f1 is modified outside the pipeline, between invocations: a
\* later message is appended, or the last message is replaced by another
\* one.  The archive f2 is not modified, and no file exists at the path f3.
Later(m, c) == \A k \in 1..Len(c) : Code(c[k]) < Code(m)

Quiescent == \A r \in Runs : run[r].pc \in {"idle", "done", "killed"}

AppendMessage(f, m) ==
  /\ f = "f1"
  /\ Quiescent
  /\ edits < MaxEdits
  /\ Len(content[f]) < MaxLen
  /\ Later(m, content[f])
  /\ content' = [content EXCEPT ![f] = Append(@, m)]
  /\ edits' = edits + 1
  /\ UNCHANGED << exists, faults, processed_files, run >>
  /\ DbUnchanged
  /\ ParserUnchanged
  /\ CategorizerUnchanged

ReplaceMessage(f, m) ==
  /\ f = "f1"
  /\ Quiescent
  /\ edits < MaxEdits
  /\ Len(content[f]) > 0
  /\ m # content[f][Len(content[f])]
  /\ Later(m, SubSeq(content[f], 1, Len(content[f]) - 1))
  /\ content' = [content EXCEPT ![f] = [@ EXCEPT ![Len(@)] = m]]
  /\ edits' = edits + 1
  /\ UNCHANGED << exists, faults, processed_files, run >>
  /\ DbUnchanged
  /\ ParserUnchanged
  /\ CategorizerUnchanged

\* ---------------------------------------------------------- FileTracker
\* is_file_processed whose handler returns True: a failing query makes the
\* file count as processed
is_file_processed_closed(f, raises) ==
  IF raises THEN TRUE ELSE processed_files[f].present

is_file_processed(f, raises) ==
  IF raises THEN FALSE ELSE processed_files[f].present

\* is_file_changed with "and" in place of "or" in the comparison
is_file_changed_and(f, raises) ==
  IF raises THEN TRUE
  ELSE IF ~processed_files[f].present THEN TRUE
  ELSE /\ st_size(content[f]) # processed_files[f].file_size
       /\ calculate_file_hash(content[f]) # processed_files[f].file_hash

is_file_changed(f, raises) ==
  IF raises THEN TRUE
  ELSE IF ~processed_files[f].present THEN TRUE
  ELSE \/ st_size(content[f]) # processed_files[f].file_size
       \/ calculate_file_hash(content[f]) # processed_files[f].file_hash

should_process_file(f, raises1, raises2) ==
  IF ~exists[f] THEN FALSE
  ELSE ~is_file_processed(f, raises1) \/ is_file_changed(f, raises2)

\* mark_file_processed that stores the hash of the path instead of the
\* hash of the content
mark_file_processed_path_hash(f, n, status, error, raises) ==
  IF raises \/ ~exists[f] THEN processed_files
  ELSE [processed_files EXCEPT ![f] =
          [present |-> TRUE, file_size |-> st_size(content[f]),
           file_hash |-> 0,
           records_processed |-> n, processing_status |-> status,
           error_message |-> error]]

\* The table after mark_file_processed(f, n, status, error): the statement
\* is INSERT ... ON DUPLICATE KEY UPDATE keyed by (file_name, file_path);
\* stat() of a missing file or a failing statement leaves the table as it is.
mark_file_processed(f, n, status, error, raises) ==
  IF raises \/ ~exists[f] THEN processed_files
  ELSE [processed_files EXCEPT ![f] =
          [present |-> TRUE, file_size |-> st_size(content[f]),
           file_hash |-> calculate_file_hash(content[f]),
           records_processed |-> n, processing_status |-> status,
           error_message |-> error]]

mark_returns(f, raises) == ~(raises \/ ~exists[f])

\* ------------------------------------------------------- parser, driver
parse_message(m) == m.parse = "ok"

\* The loop over the SMS elements without its try/except: the first message
\* that fails ends the loop
RECURSIVE parse_xml_abort_on_error(_)
parse_xml_abort_on_error(c) ==
  IF c = << >> \/ Head(c).parse = "fail" THEN << >>
  ELSE IF parse_message(Head(c))
       THEN << Head(c) >> \o parse_xml_abort_on_error(Tail(c))
       ELSE parse_xml_abort_on_error(Tail(c))

\* for sms in sms_elements: a transaction is appended when parse_message
\* returns one; a message without one is left out and the loop goes on.
RECURSIVE parse_xml_with_enhanced_parser(_)
parse_xml_with_enhanced_parser(c) ==
  IF c = << >> THEN << >>
  ELSE IF parse_message(Head(c))
       THEN << Head(c) >> \o parse_xml_with_enhanced_parser(Tail(c))
       ELSE parse_xml_with_enhanced_parser(Tail(c))

Or(a, b) == IF a # "" THEN a ELSE b

db_transaction(t) ==
  [phone |-> Or(t.recipient_phone, t.sender_phone),
   recipient_phone |-> t.recipient_phone,
   reference |-> Or(t.transaction_id, Or(t.financial_transaction_id, t.external_transaction_id)),
   external_transaction_id |-> t.external_transaction_id,
   category |-> t.category,
   original_message |-> t.body]

\* A conversion that returns the records in the opposite order
convert_reversed(ts) == [k \in 1..Len(ts) |-> db_transaction(ts[Len(ts) + 1 - k])]

convert_to_database_format(ts) == [k \in 1..Len(ts) |-> db_transaction(ts[k])]


\* ------------------------------------------------ run_enhanced_etl_pipeline
Set(r, rec) ==
  run' = [run EXCEPT ![r] = rec]

\* What is remembered of an invocation once the next one has started.
Summary(me) ==
  [IdleRun EXCEPT !.pc = me.pc, !.file = me.file, !.status = me.status,
                  !.marked = me.marked, !.seen = me.seen, !.rows0 = me.rows0,
                  !.inserted = me.inserted, !.committed = me.committed,
                  !.aborted = me.aborted, !.killed_at = me.killed_at,
                  !.summary = me.summary]

\* An invocation starts on some file; invocations follow one another.  The
\* summary of an invocation is kept until the invocation after the next
\* one starts.
Start(r) ==
  /\ run[r].pc = "idle"
  /\ \A q \in Runs : q < r => run[q].pc \in Final
  /\ \E f \in Files :
       run' = [q \in Runs |->
                 IF q = r THEN [run[r] EXCEPT !.pc = "check", !.file = f,
                                              !.pre = processed_files[f],
                                              !.rows0 = Len(transactions),
                                              !.logs0 = Len(system_logs)]
                 ELSE IF q < r - 1 THEN [IdleRun EXCEPT !.pc = "done"]
                 ELSE IF q = r - 1 THEN Summary(run[q])
                 ELSE run[q]]
  /\ UNCHANGED << faults, processed_files >>
  /\ FilesUnchanged
  /\ DbUnchanged
  /\ ParserUnchanged
  /\ CategorizerUnchanged

\* A skipped invocation that records the file again, with 0 records
CheckFile_marks(r) ==
  /\ run[r].pc = "check"
  /\ \E raises1, raises2 \in BOOLEAN :
       LET f == run[r].file
           second == exists[f] /\ is_file_processed(f, raises1)
           d == should_process_file(f, raises1, raises2)
           snap == [made |-> TRUE, decision |-> d,
                    present |-> processed_files[f].present,
                    exists |-> exists[f],
                    match |-> /\ st_size(content[f]) = processed_files[f].file_size
                              /\ calculate_file_hash(content[f]) = processed_files[f].file_hash,
                    raised |-> raises1 \/ raises2]
       IN /\ raises1 => exists[f]
          /\ raises2 => second
          /\ Raise(N(raises1) + N(raises2))
          /\ IF d
             THEN Set(r, [run[r] EXCEPT !.pc = "parse", !.chk = snap,
                                        !.seen = content[f]])
             ELSE Set(r, Ended([run[r] EXCEPT !.chk = snap, !.seen = content[f]],
                               "done", "skipped"))
          /\ processed_files' =
               IF d THEN processed_files
               ELSE mark_file_processed(f, 0, "SUCCESS", "", FALSE)
  /\ FilesUnchanged
  /\ DbUnchanged
  /\ ParserUnchanged
  /\ CategorizerUnchanged

\* The gate with a lock on the file: an invocation is refused while
\* another one is between the gate and the marking of the same file
CheckFile_locked(r) ==
  /\ run[r].pc = "check"
  /\ \E raises1, raises2 \in BOOLEAN :
       LET f == run[r].file
           second == exists[f] /\ is_file_processed(f, raises1)
           locked == \E q \in Runs \ {r} :
                       run[q].file = f /\ run[q].pc \notin {"idle", "check", "done", "killed"}
           d == should_process_file(f, raises1, raises2) /\ ~locked
           snap == [made |-> TRUE, decision |-> d,
                    present |-> processed_files[f].present,
                    exists |-> exists[f],
                    match |-> /\ st_size(content[f]) = processed_files[f].file_size
                              /\ calculate_file_hash(content[f]) = processed_files[f].file_hash,
                    raised |-> raises1 \/ raises2]
       IN /\ raises1 => exists[f]
          /\ raises2 => second
          /\ Raise(N(raises1) + N(raises2))
          /\ IF d
             THEN Set(r, [run[r] EXCEPT !.pc = "parse", !.chk = snap,
                                        !.seen = content[f]])
             ELSE Set(r, Ended([run[r] EXCEPT !.chk = snap, !.seen = content[f]],
                               "done", "skipped"))
  /\ UNCHANGED processed_files
  /\ FilesUnchanged
  /\ DbUnchanged
  /\ ParserUnchanged
  /\ CategorizerUnchanged

\* if not file_tracker.should_process_file(xml_file): return 'skipped'
\* raises1 / raises2: the query of is_file_processed / is_file_changed raises.
\* is_file_changed is evaluated only when is_file_processed returned True.
CheckFile(r) ==
  /\ run[r].pc = "check"
  /\ \E raises1, raises2 \in BOOLEAN :
       LET f == run[r].file
           second == exists[f] /\ is_file_processed(f, raises1)
           d == should_process_file(f, raises1, raises2)
           snap == [made |-> TRUE, decision |-> d,
                    present |-> processed_files[f].present,
                    exists |-> exists[f],
                    match |-> /\ st_size(content[f]) = processed_files[f].file_size
                              /\ calculate_file_hash(content[f]) = processed_files[f].file_hash,
                    raised |-> raises1 \/ raises2]
       IN /\ raises1 => exists[f]
          /\ raises2 => second
          /\ Raise(N(raises1) + N(raises2))
          /\ IF d
             THEN Set(r, [run[r] EXCEPT !.pc = "parse", !.chk = snap,
                                        !.seen = content[f]])
             ELSE Set(r, Ended([run[r] EXCEPT !.chk = snap, !.seen = content[f]],
                               "done", "skipped"))
  /\ UNCHANGED processed_files
  /\ FilesUnchanged
  /\ DbUnchanged
  /\ ParserUnchanged
  /\ CategorizerUnchanged

\* Step 1 and 2: parse the archive, convert to database format.
ParseFile(r) ==
  /\ run[r].pc = "parse"
  /\ \E raises \in BOOLEAN :
       /\ Raise(N(raises))
       /\ LET f == run[r].file
              p == parse_xml_with_enhanced_parser(content[f])
          IN IF raises
             THEN Set(r, Raised(run[r], "parse error"))
             ELSE IF p = << >>
             THEN Set(r, Ended([run[r] EXCEPT !.seen = content[f],
                                              !.sms_read = Len(content[f])],
                               "done", "warning"))
             ELSE Set(r, [run[r] EXCEPT !.pc = "enter", !.seen = content[f],
                                        !.sms_read = Len(content[f]),
                                        !.db_transactions = convert_to_database_format(p)])
  /\ UNCHANGED processed_files
  /\ FilesUnchanged
  /\ DbUnchanged
  /\ ParserUnchanged
  /\ CategorizerUnchanged

\* with MySQLDatabaseLoader() as db_loader:   __enter__ connects
EnterLoader(r) ==
  /\ run[r].pc = "enter"
  /\ \E raises \in BOOLEAN :
       /\ Raise(N(raises))
       /\ IF raises
          THEN Set(r, Raised(run[r], "connect error"))
          ELSE Set(r, [run[r] EXCEPT !.pc = "begin"])
  /\ UNCHANGED processed_files
  /\ FilesUnchanged
  /\ DbUnchanged
  /\ ParserUnchanged
  /\ CategorizerUnchanged

\* ------------------------------------------------------ MySQLDatabaseLoader
\* load_transactions up to the loop.  When connection.cursor() raises, the
\* handler rolls back and re-raises, and the finally clause then reads the
\* unbound local cursor: the exception that leaves the function is the
\* UnboundLocalError.
LoadBegin(r) ==
  /\ run[r].pc = "begin"
  /\ \E raises \in BOOLEAN :
       /\ Raise(N(raises))
       /\ IF raises
          THEN Set(r, Raised([run[r] EXCEPT !.aborted = TRUE, !.cause = "cursor error"],
                             "UnboundLocalError"))
          ELSE Set(r, [run[r] EXCEPT !.pc = IF Len(run[r].db_transactions) = 0
                                            THEN "log" ELSE "loop",
                                     !.i = 1])
  /\ UNCHANGED processed_files
  /\ FilesUnchanged
  /\ DbUnchanged
  /\ ParserUnchanged
  /\ CategorizerUnchanged

\* What the loader's connection reads: committed rows and its own writes.
VisibleRows(r) == transactions \o run[r].pend_rows
VisibleUsers(r) == users \cup run[r].pend_users
VisibleCategories(r) == categories \cup run[r].pend_categories

\* _get_or_create_user for 'phone' and 'recipient_phone': the phones it inserts
get_or_create_user(r, t) ==
  { ph \in {t.phone, t.recipient_phone} : ph # "" /\ ph \notin VisibleUsers(r) }

get_or_create_category(r, t) ==
  IF t.category # "" /\ t.category \notin VisibleCategories(r) THEN {t.category} ELSE {}

\* _insert_transaction whose SELECT reads the committed rows only
insert_finds_existing_committed(r, t) ==
  /\ t.external_transaction_id # ""
  /\ \E k \in 1..Len(transactions) :
       transactions[k].external_transaction_id = t.external_transaction_id

\* _insert_transaction: the SELECT by external_transaction_id finds a row
insert_finds_existing(r, t) ==
  /\ t.external_transaction_id # ""
  /\ \E k \in 1..Len(VisibleRows(r)) :
       VisibleRows(r)[k].external_transaction_id = t.external_transaction_id

\* after _insert_transaction returned: the pending rows of the connection
insert_transaction(r, t) ==
  IF insert_finds_existing(r, t)
  THEN run[r].pend_rows
  ELSE Append(run[r].pend_rows,
              [external_transaction_id |-> t.external_transaction_id,
               reference_number |-> t.reference,
               original_message |-> t.original_message])

\* The id that _insert_transaction returns: the id of the existing row when
\* the SELECT found one, else cursor.lastrowid of the INSERT.  Row ids are
\* positions in the table, from 1.
insert_transaction_id(r, t) ==
  IF insert_finds_existing(r, t)
  THEN CHOOSE k \in 1..Len(VisibleRows(r)) :
         VisibleRows(r)[k].external_transaction_id = t.external_transaction_id
  ELSE Len(VisibleRows(r)) + 1

\* load_transactions: "if transaction_id:" counts the transaction as loaded
counts_as_loaded(id) == id # 0

\* load_transactions without the inner try: an exception of one
\* transaction leaves the function
ProcessTransaction_abort(r) ==
  /\ run[r].pc = "loop"
  /\ \E fail \in {"none", "user", "insert"} :
       LET me == run[r]
           t == me.db_transactions[me.i]
           next == IF me.i = Len(me.db_transactions) THEN "log" ELSE "loop"
           dup == insert_finds_existing(r, t)
       IN /\ (fail = "insert") => ~dup
          /\ Raise(N(fail # "none"))
          /\ IF fail # "none"
             THEN Set(r, Raised([me EXCEPT !.aborted = TRUE, !.cause = "transaction error"],
                                "transaction error"))
             ELSE Set(r, [me EXCEPT !.pc = next, !.i = @ + 1,
                                    !.pend_users = @ \cup get_or_create_user(r, t),
                                    !.pend_categories = @ \cup get_or_create_category(r, t),
                                    !.pend_rows = insert_transaction(r, t),
                                    !.loaded_count = @ + 1,
                                    !.duplicates = IF dup THEN @ + 1 ELSE @])
  /\ UNCHANGED processed_files
  /\ FilesUnchanged
  /\ DbUnchanged
  /\ ParserUnchanged
  /\ CategorizerUnchanged

\* One iteration of the loop of load_transactions.
\*   fail = "user":   the first statement of _process_transaction raises
\*   fail = "insert": the INSERT of _insert_transaction raises, after
\*                    _get_or_create_user / _get_or_create_category ran
ProcessTransaction(r) ==
  /\ run[r].pc = "loop"
  /\ \E fail \in {"none", "user", "insert"} :
       LET me == run[r]
           t == me.db_transactions[me.i]
           next == IF me.i = Len(me.db_transactions) THEN "log" ELSE "loop"
           dup == insert_finds_existing(r, t)
       IN /\ (fail = "insert") => ~dup
          /\ Raise(N(fail # "none"))
          /\ CASE fail = "user" ->
                    Set(r, [me EXCEPT !.pc = next, !.i = @ + 1,
                                      !.error_count = @ + 1,
                                      !.errors = Append(@, me.i)])
               [] fail = "insert" ->
                    Set(r, [me EXCEPT !.pc = next, !.i = @ + 1,
                                      !.pend_users = @ \cup get_or_create_user(r, t),
                                      !.pend_categories = @ \cup get_or_create_category(r, t),
                                      !.error_count = @ + 1,
                                      !.errors = Append(@, me.i)])
               [] OTHER ->
                    Set(r, [me EXCEPT !.pc = next, !.i = @ + 1,
                                      !.pend_users = @ \cup get_or_create_user(r, t),
                                      !.pend_categories = @ \cup get_or_create_category(r, t),
                                      !.pend_rows = insert_transaction(r, t),
                                      !.loaded_count =
                                          IF counts_as_loaded(insert_transaction_id(r, t))
                                          THEN @ + 1 ELSE @,
                                      !.duplicates = IF dup THEN @ + 1 ELSE @])
  /\ UNCHANGED processed_files
  /\ FilesUnchanged
  /\ DbUnchanged
  /\ ParserUnchanged
  /\ CategorizerUnchanged

\* _log_etl_process: the INSERT into system_logs; an exception is logged and
\* swallowed.
log_etl_process(r, raises) ==
  IF raises THEN run[r].pend_logs
  ELSE Append(run[r].pend_logs,
              [records_processed |-> Len(run[r].db_transactions),
               records_successful |-> run[r].loaded_count,
               records_failed |-> run[r].error_count])

LogEtlProcess(r) ==
  /\ run[r].pc = "log"
  /\ \E raises \in BOOLEAN :
       /\ Raise(N(raises))
       /\ Set(r, [run[r] EXCEPT !.pc = "commit", !.pend_logs = log_etl_process(r, raises)])
  /\ UNCHANGED processed_files
  /\ FilesUnchanged
  /\ DbUnchanged
  /\ ParserUnchanged
  /\ CategorizerUnchanged

\* self.connection.commit(); on an exception rollback() and re-raise.
Commit(r) ==
  /\ run[r].pc = "commit"
  /\ \E raises \in BOOLEAN :
       /\ Raise(N(raises))
       /\ LET me == run[r]
          IN IF raises
             THEN /\ Set(r, Raised([me EXCEPT !.aborted = TRUE, !.cause = "commit error"],
                                    "commit error"))
                  /\ DbUnchanged
             ELSE /\ transactions' = transactions \o me.pend_rows
                  /\ users' = users \cup me.pend_users
                  /\ categories' = categories \cup me.pend_categories
                  /\ system_logs' = system_logs \o me.pend_logs
                  /\ Set(r, [me EXCEPT !.pc = "export", !.committed = TRUE,
                                       !.logged = Len(me.pend_logs) > 0,
                                       !.inserted = Len(me.pend_rows),
                                       !.successfully_loaded = me.loaded_count,
                                       !.pend_rows = << >>, !.pend_users = {},
                                       !.pend_categories = {}, !.pend_logs = << >>])
  /\ UNCHANGED processed_files
  /\ FilesUnchanged
  /\ ParserUnchanged
  /\ CategorizerUnchanged

\* Step 4: export_dashboard_json re-raises its exceptions;
\* get_database_stats swallows them.
ExportDashboard(r) ==
  /\ run[r].pc = "export"
  /\ \E raises \in BOOLEAN :
       /\ Raise(N(raises))
       /\ IF raises
          THEN Set(r, Raised(run[r], "export error"))
          ELSE Set(r, [run[r] EXCEPT !.pc = "mark"])
  /\ UNCHANGED processed_files
  /\ FilesUnchanged
  /\ DbUnchanged
  /\ ParserUnchanged
  /\ CategorizerUnchanged

\* final_summary: 'parsing_stats' holds the number of parsed transactions,
\* 'loading' is the loader's get_loading_summary().
final_summary(me) ==
  [total_parsed |-> Len(me.db_transactions),
   total_processed |-> me.loaded_count + me.error_count,
   successfully_loaded |-> me.loaded_count,
   loading_errors |-> me.error_count]

\* file_tracker.mark_file_processed(xml_file, successfully_loaded, 'SUCCESS')
MarkSuccess(r) ==
  /\ run[r].pc = "mark"
  /\ \E raises \in BOOLEAN :
       /\ Raise(N(raises))
       /\ LET me == run[r]
          IN /\ processed_files' =
                  mark_file_processed(me.file, me.successfully_loaded, "SUCCESS", "", raises)
             /\ Set(r, Ended([me EXCEPT !.marked = IF mark_returns(me.file, raises)
                                                      THEN "SUCCESS" ELSE "no",
                                        !.summary = final_summary(me)],
                             "done", "success"))
  /\ FilesUnchanged
  /\ DbUnchanged
  /\ ParserUnchanged
  /\ CategorizerUnchanged

\* except Exception as e: mark_file_processed(xml_file, 0, 'FAILED', str(e))
MarkFailed(r) ==
  /\ run[r].pc = "except"
  /\ \E raises \in BOOLEAN :
       /\ Raise(N(raises))
       /\ LET me == run[r]
          IN /\ processed_files' = mark_file_processed(me.file, 0, "FAILED", me.exc, raises)
             /\ Set(r, Ended([me EXCEPT !.marked = IF mark_returns(me.file, raises)
                                                      THEN "FAILED" ELSE "no"],
                             "done", "error"))
  /\ FilesUnchanged
  /\ DbUnchanged
  /\ ParserUnchanged
  /\ CategorizerUnchanged

Phase(pc) ==
  CASE pc \in {"check", "parse", "enter", "begin"} -> "before load"
    [] pc \in {"loop", "log", "commit"} -> "load"
    [] OTHER -> "after load"

\* Interrupt on a connection with autocommit: the statements executed so
\* far are in the table
Interrupt_autocommit(r) ==
  /\ run[r].pc \notin {"idle", "done", "killed"}
  /\ Raise(1)
  /\ Set(r, Ended([run[r] EXCEPT !.killed_at = Phase(run[r].pc),
                                 !.error_count = 0, !.duplicates = 0, !.exc = "",
                                 !.seen = << >>, !.chk = NoCheck, !.sms_read = 0],
                  "killed", ""))
  /\ transactions' = transactions \o run[r].pend_rows
  /\ UNCHANGED << processed_files, users, categories, system_logs >>
  /\ FilesUnchanged
  /\ ParserUnchanged
  /\ CategorizerUnchanged

\* The process is interrupted (KeyboardInterrupt is not an Exception, so
\* neither handler runs; a killed process runs nothing): the connection is
\* closed and the server discards its uncommitted writes.
Interrupt(r) ==
  /\ run[r].pc \notin {"idle", "done", "killed"}
  /\ Raise(1)
  /\ Set(r, Ended([run[r] EXCEPT !.killed_at = Phase(run[r].pc),
                                 !.error_count = 0, !.duplicates = 0, !.exc = "",
                                 !.seen = << >>, !.chk = NoCheck, !.sms_read = 0],
                  "killed", ""))
  /\ UNCHANGED processed_files
  /\ FilesUnchanged
  /\ DbUnchanged
  /\ ParserUnchanged
  /\ CategorizerUnchanged

Step(r) ==
  \/ Start(r)
  \/ CheckFile(r)
  \/ ParseFile(r)
  \/ EnterLoader(r)
  \/ LoadBegin(r)
  \/ ProcessTransaction(r)
  \/ LogEtlProcess(r)
  \/ Commit(r)
  \/ ExportDashboard(r)
  \/ MarkSuccess(r)
  \/ MarkFailed(r)
  \/ Interrupt(r)

Modify ==
  \E f \in Files, m \in SmsPool : AppendMessage(f, m) \/ ReplaceMessage(f, m)

Next ==
  \/ \E r \in Runs : Step(r)
  \/ Modify

Spec == Init /\ [][Next]_vars

\* ------------------------------------------------------------ concurrency
\* A second process calls run_enhanced_etl_pipeline on the archive that an
\* invocation in progress is working on: nothing in the function or in the
\* tracker keeps it from starting.
StartConcurrently(r) ==
  /\ r > 1
  /\ run[r].pc = "idle"
  /\ run[r - 1].pc \notin {"idle", "done", "killed"}
  /\ LET f == run[r - 1].file
     IN Set(r, [run[r] EXCEPT !.pc = "check", !.file = f,
                              !.pre = processed_files[f],
                              !.rows0 = Len(transactions),
                              !.logs0 = Len(system_logs)])
  /\ UNCHANGED << faults, processed_files >>
  /\ FilesUnchanged
  /\ DbUnchanged
  /\ ParserUnchanged
  /\ CategorizerUnchanged

\* The archive f1 is modified while an invocation is in progress: a later
\* message is appended.
AppendDuringRun(f, m) ==
  /\ f = "f1"
  /\ ~Quiescent
  /\ edits < MaxEdits
  /\ Len(content[f]) < MaxLen
  /\ Later(m, content[f])
  /\ content' = [content EXCEPT ![f] = Append(@, m)]
  /\ edits' = edits + 1
  /\ UNCHANGED << exists, faults, processed_files, run >>
  /\ DbUnchanged
  /\ ParserUnchanged
  /\ CategorizerUnchanged

RaceNext ==
  \/ Next
  \/ \E r \in Runs : StartConcurrently(r)
  \/ \E f \in Files, m \in SmsPool : AppendDuringRun(f, m)

\* Invocations in several processes, and archives modified at any time
RaceSpec == Init /\ [][RaceNext]_vars

\* Every invocation that can take a step takes one: the interpreter runs
\* the function to its return.
FairSpec == Spec /\ \A r \in Runs : WF_vars(Step(r))

Latest(r) ==
  /\ run[r].pc # "idle"
  /\ \A q \in Runs : q > r => run[q].pc = "idle"

TypeOK ==
  /\ Len(transactions) <= MaxRuns * MaxLen
  /\ \A r \in Runs : run[r].loaded_count + run[r].error_count <= MaxLen


\* ========================================================= EnhancedMTNParser
\* A text is a sequence of atoms: a word, a USSD marker, a digit, a
\* punctuation mark or a blank.  Words that contain a shorter trigger are
\* written as two atoms ("transfer" "red", "Bundle" "s", "imbank." "bank",
\* "*162*" "TxId:"), so that "x in text" is the search for a run of atoms.
MaxPhrases == 2    \* phrases of one message
MaxCalls == 2      \* calls of the categorizer

\* << as written, str.upper(), str.lower() >> of the atoms with letters
CaseTable ==
  { << "You", "YOU", "you" >>, << "have", "HAVE", "have" >>,
    << "received", "RECEIVED", "received" >>, << "TxId:", "TXID:", "txid:" >>,
    << "Airtime", "AIRTIME", "airtime" >>, << "Bundle", "BUNDLE", "bundle" >>,
    << "s", "S", "s" >>, << "and", "AND", "and" >>, << "Packs", "PACKS", "packs" >>,
    << "Onafriq", "ONAFRIQ", "onafriq" >>, << "Esicia", "ESICIA", "esicia" >>,
    << "MTN", "MTN", "mtn" >>, << "Your", "YOUR", "your" >>,
    << "payment", "PAYMENT", "payment" >>, << "of", "OF", "of" >>,
    << "has", "HAS", "has" >>, << "been", "BEEN", "been" >>,
    << "completed", "COMPLETED", "completed" >>, << "*113*R*", "*113*R*", "*113*r*" >>,
    << "bank", "BANK", "bank" >>, << "deposit", "DEPOSIT", "deposit" >>,
    << "*165*S*", "*165*S*", "*165*s*" >>, << "transfer", "TRANSFER", "transfer" >>,
    << "red", "RED", "red" >>, << "to", "TO", "to" >>,
    << "*164*S*", "*164*S*", "*164*s*" >>, << "Data", "DATA", "data" >>,
    << "via", "VIA", "via" >>, << "agent:", "AGENT:", "agent:" >>,
    << "with", "WITH", "with" >>, << "drawn", "DRAWN", "drawn" >>,
    << "imbank.", "IMBANK.", "imbank." >>, << "failed", "FAILED", "failed" >>,
    << "at", "AT", "at" >>, << "reversal", "REVERSAL", "reversal" >>,
    << "initiated", "INITIATED", "initiated" >>, << "reversed", "REVERSED", "reversed" >>,
    << "Rwf", "RWF", "rwf" >>, << "Receiver:", "RECEIVER:", "receiver:" >>,
    << "transaction", "TRANSACTION", "transaction" >>,
    << "Amount", "AMOUNT", "amount" >>, << "A", "A", "a" >>,
    << "Cash", "CASH", "cash" >>, << "Jane", "JANE", "jane" >>,
    << "from", "FROM", "from" >>, << "John", "JOHN", "john" >>, << "Doe", "DOE", "doe" >>,
    << "on", "ON", "on" >>, << "mobile", "MOBILE", "mobile" >>,
    << "money", "MONEY", "money" >>, << "account", "ACCOUNT", "account" >>,
    << "Financial", "FINANCIAL", "financial" >>,
    << "Transaction", "TRANSACTION", "transaction" >>, << "Id:", "ID:", "id:" >>,
    << "TXN", "TXN", "txn" >>, << "AB", "AB", "ab" >> }

CasedAtoms == UNION { { t[1], t[2], t[3] } : t \in CaseTable }
Cased(ch) == CHOOSE t \in CaseTable : ch \in { t[1], t[2], t[3] }
UpperOf == [ch \in CasedAtoms |-> Cased(ch)[2]]
LowerOf == [ch \in CasedAtoms |-> Cased(ch)[3]]

\* str.upper() and str.lower(): digits, punctuation and blanks stay
upper_atom(ch) == IF ch \in CasedAtoms THEN UpperOf[ch] ELSE ch
lower_atom(ch) == IF ch \in CasedAtoms THEN LowerOf[ch] ELSE ch

RECURSIVE upper(_)
upper(t) == IF t = << >> THEN << >> ELSE << upper_atom(Head(t)) >> \o upper(Tail(t))

RECURSIVE lower(_)
lower(t) == IF t = << >> THEN << >> ELSE << lower_atom(Head(t)) >> \o lower(Tail(t))

\* the words ws, separated by blanks
RECURSIVE Words(_)
Words(ws) ==
  IF Len(ws) <= 1 THEN ws ELSE << Head(ws), " " >> \o Words(Tail(ws))

\* the text t holds the literal lit at position k
MatchAt(t, k, lit) ==
  /\ k >= 1
  /\ k + Len(lit) - 1 <= Len(t)
  /\ \A j \in 1..Len(lit) : t[k + j - 1] = lit[j]

\* lit in t
Contains(t, lit) == \E k \in 1..(Len(t) + 1) : MatchAt(t, k, lit)

\* The conditions of the if/elif chain of _identify_message_type, in the
\* order of the chain
rule_triggers(msg) ==
  LET message_upper == upper(msg)
      Has(ws) == Contains(message_upper, ws)
      Has162 == Has(<< "*162*", "TXID:" >>)
      PaymentCompleted == /\ Has(Words(<< "YOUR", "PAYMENT", "OF" >>))
                          /\ Has(Words(<< "HAS", "BEEN", "COMPLETED" >>))
  IN << Has(Words(<< "YOU", "HAVE", "RECEIVED" >>)),
        Has162 /\ Has(<< "AIRTIME" >>),
        Has162 /\ Has(<< "BUNDLE", "S", " ", "AND", " ", "PACKS" >>),
        Has162 /\ \E company \in { "ONAFRIQ", "ESICIA", "MTN" } : Has(<< company >>),
        Has(<< "TXID:" >>) /\ PaymentCompleted,
        /\ Has(<< "*113*R*" >>)
        /\ Contains(lower(message_upper), Words(<< "bank", "deposit" >>)),
        Has(<< "*113*R*" >>),
        Has(<< "*165*S*" >>) /\ Has(<< "TRANSFER", "RED", " ", "TO" >>),
        Has(<< "*164*S*" >>) /\ Has(Words(<< "DATA", "BUNDLE" >>)),
        Has(<< "*164*S*" >>),
        Has(Words(<< "HAVE", "VIA", "AGENT:" >>)) /\ Has(<< "WITH", "DRAWN" >>),
        /\ Has(<< "YOU", " ", "HAVE", " ", "TRANSFER", "RED" >>)
        /\ Has(<< "IMBANK.", "BANK" >>),
        PaymentCompleted /\ ~Has(<< "TXID:" >>),
        /\ Has(<< "*143*" >>)
        /\ \/ Has(Words(<< "HAS", "FAILED" >>))
           \/ Contains(lower(msg), Words(<< "has", "failed" >>))
           \/ Has(Words(<< "FAILED", "AT" >>)),
        \/ Has(Words(<< "REVERSAL", "HAS", "BEEN", "INITIATED" >>))
        \/ Has(Words(<< "HAS", "BEEN", "REVERSED" >>)),
        Has(Words(<< "DEPOSIT", "RWF" >>)) /\ Has(<< "RECEIVER:" >>) >>

\* what the branches of the chain return, in the order of the chain
rule_kinds ==
  << "INCOMING_MONEY", "AIRTIME_PURCHASE", "DATA_BUNDLE_PURCHASE", "BUSINESS_PAYMENT",
     "PAYMENT_MOMO_CODE", "DEPOSIT_AGENT", "DEPOSIT_OTHER", "TRANSFER_MOBILE",
     "DATA_BUNDLE_PURCHASE", "BUSINESS_PAYMENT", "CASH_WITHDRAWAL", "TRANSFER_IMBANK",
     "PAYMENT_ALTERNATIVE", "FAILED_TRANSACTION", "REVERSAL", "DEPOSIT_ALTERNATIVE" >>

\* A chain in which a later branch overrides an earlier one
RECURSIVE last_rule(_, _)
last_rule(t, i) ==
  IF i > Len(t) THEN 0
  ELSE LET later == last_rule(t, i + 1)
       IN IF later # 0 THEN later ELSE IF t[i] THEN i ELSE 0

\* if / elif / ... / else: the branch taken, from branch i on; 0 is the else
RECURSIVE first_rule(_, _)
first_rule(t, i) ==
  IF i > Len(t) THEN 0
  ELSE IF t[i] THEN i
  ELSE first_rule(t, i + 1)

\* The chain without its final else: no branch taken gives no kind
identify_without_default(msg) ==
  LET branch == first_rule(rule_triggers(msg), 1)
  IN IF branch = 0 THEN "" ELSE rule_kinds[branch]

_identify_message_type(msg) ==
  LET branch == first_rule(rule_triggers(msg), 1)
  IN IF branch = 0 THEN "UNKNOWN" ELSE rule_kinds[branch]

\* ------------------------------------------------------------- extraction
Digits == { "0", "1", "2", "3", "4", "5", "6", "7", "8", "9" }

\* the number of atoms of t from position k on that are in the class cls
RunLength(t, k, cls) ==
  CHOOSE n \in 0..(Len(t) + 1 - k) :
    /\ \A j \in 0..(n - 1) : t[k + j] \in cls
    /\ (k + n <= Len(t)) => t[k + n] \notin cls

\* ([\d,]+(?:\.\d{2})?) at position k followed by the literal suffix: the
\* last position of the group, or 0.  The group is greedy; a shorter group
\* is followed by a digit or a comma, which starts no suffix.
AmountEnd(t, k, suffix) ==
  LET n == RunLength(t, k, Digits \cup { "," })
      decimals == /\ k + n + 2 <= Len(t)
                  /\ t[k + n] = "."
                  /\ t[k + n + 1] \in Digits
                  /\ t[k + n + 2] \in Digits
  IN IF k > Len(t) \/ n = 0 THEN 0
     ELSE IF decimals /\ MatchAt(t, k + n + 3, suffix) THEN k + n + 2
     ELSE IF MatchAt(t, k + n, suffix) THEN k + n - 1
     ELSE 0

\* (\d+) at position k followed by the literal suffix
DigitsEnd(t, k, suffix) ==
  LET n == RunLength(t, k, Digits)
  IN IF k > Len(t) \/ n = 0 THEN 0
     ELSE IF MatchAt(t, k + n, suffix) THEN k + n - 1
     ELSE 0

GroupEnd(t, k, suffix, digits_only) ==
  IF digits_only THEN DigitsEnd(t, k, suffix) ELSE AmountEnd(t, k, suffix)

\* re.search(prefix group suffix, t).group(1): the group of the leftmost
\* match, << >> when there is no match.  prefixes are the alternatives of
\* the pattern's prefix.
search_amount(t, prefixes, suffix, digits_only) ==
  LET Hit(k) == \E p \in prefixes :
                  MatchAt(t, k, p) /\ GroupEnd(t, k + Len(p), suffix, digits_only) > 0
      hits == { k \in 1..Len(t) : Hit(k) }
  IN IF hits = {} THEN << >>
     ELSE LET k == CHOOSE h \in hits : \A g \in hits : h <= g
              p == CHOOSE q \in prefixes :
                     MatchAt(t, k, q) /\ GroupEnd(t, k + Len(q), suffix, digits_only) > 0
          IN SubSeq(t, k + Len(p), GroupEnd(t, k + Len(p), suffix, digits_only))

DigitValue(d) ==
  CASE d = "0" -> 0 [] d = "1" -> 1 [] d = "2" -> 2 [] d = "3" -> 3 [] d = "4" -> 4
    [] d = "5" -> 5 [] d = "6" -> 6 [] d = "7" -> 7 [] d = "8" -> 8 [] d = "9" -> 9

\* str.replace(',', '')
RECURSIVE replace_commas(_)
replace_commas(s) ==
  IF s = << >> THEN << >>
  ELSE IF Head(s) = "," THEN replace_commas(Tail(s))
  ELSE << Head(s) >> \o replace_commas(Tail(s))

RECURSIVE int_value(_, _)
int_value(acc, s) ==
  IF s = << >> THEN acc ELSE int_value(acc * 10 + DigitValue(Head(s)), Tail(s))

\* float(s) of a group without commas, in hundredths of a franc; -1 stands
\* for the ValueError that float('') raises.
float(s) ==
  IF s = << >> THEN -1
  ELSE IF Len(s) >= 3 /\ s[Len(s) - 2] = "."
  THEN int_value(0, SubSeq(s, 1, Len(s) - 3)) * 100 + int_value(0, SubSeq(s, Len(s) - 1, Len(s)))
  ELSE int_value(0, s) * 100

\* re.search(lit ([^(]+) \(([^)]+)\), t) matches
search_name_phone(t, lit) ==
  \E k \in 1..Len(t) :
    /\ MatchAt(t, k, lit)
    /\ \E m \in (k + Len(lit) + 1)..Len(t), q \in 1..Len(t) :
         /\ \A j \in (k + Len(lit))..(m - 1) : t[j] # "("
         /\ MatchAt(t, m, << " ", "(" >>)
         /\ q >= m + 3
         /\ \A j \in (m + 2)..(q - 1) : t[j] # ")"
         /\ t[q] = ")"

\* re.search(r'TO ([^(]+) (\d{5})', t) matches
search_name_code(t) ==
  \E k \in 1..Len(t) :
    /\ MatchAt(t, k, << "TO", " " >>)
    /\ \E m \in (k + 3)..Len(t) :
         /\ \A j \in (k + 2)..(m - 1) : t[j] # "("
         /\ t[m] = " "
         /\ m + 5 <= Len(t)
         /\ \A j \in 1..5 : t[m + j] \in Digits

RWF == << " ", "RWF" >>
PAYMENT_OF == Words(<< "YOUR", "PAYMENT", "OF" >>) \o << " " >>
TRANSACTION_OF == Words(<< "TRANSACTION", "OF" >>) \o << " " >>

\* What an extractor returns once the amount pattern gave the group g:
\* None when the pattern did not match, None when float() raises (the
\* extractor's except returns None), else the ParsedTransaction.
\* confidence is in hundredths.
ParsedTransaction(g, type, category, confidence, recipient) ==
  IF g = << >> \/ float(replace_commas(g)) = -1 THEN None
  ELSE [None EXCEPT !.amount = float(replace_commas(g)), !.transaction_type = type,
                    !.category = category, !.confidence = confidence,
                    !.recipient_match = recipient]

\* re.search(r'\(([^)]+)\)', t).group(1), << >> for no match (None)
search_parenthesised(t) ==
  LET Closes(k, q) == /\ q > k + 1
                      /\ t[q] = ")"
                      /\ \A j \in (k + 1)..(q - 1) : t[j] # ")"
      hits == { k \in 1..Len(t) : t[k] = "(" /\ \E q \in 1..Len(t) : Closes(k, q) }
  IN IF hits = {} THEN << >>
     ELSE LET k == CHOOSE h \in hits : \A g \in hits : h <= g
              q == CHOOSE e \in 1..Len(t) : Closes(k, e)
          IN SubSeq(t, k + 1, q - 1)

\* re.search(lit (\d+), t).group(1), << >> for no match (None)
search_digits_after(t, lit) ==
  LET hits == { k \in 1..Len(t) :
                  MatchAt(t, k, lit) /\ RunLength(t, k + Len(lit), Digits) > 0 }
  IN IF hits = {} THEN << >>
     ELSE LET k == CHOOSE h \in hits : \A g \in hits : h <= g
          IN SubSeq(t, k + Len(lit), k + Len(lit) + RunLength(t, k + Len(lit), Digits) - 1)

FINANCIAL_TRANSACTION_ID == Words(<< "FINANCIAL", "TRANSACTION", "ID:" >>) \o << " " >>

\* Of the optional fields the direction, the sender's phone and the
\* transaction id are kept; the phone is searched in the message as written.
_parse_incoming_money(msg) ==
  LET t == upper(msg)
      amount_match == search_amount(t, { Words(<< "YOU", "HAVE", "RECEIVED" >>) \o << " " >> },
                                    RWF, FALSE)
      parsed == ParsedTransaction(amount_match, "RECEIVE", "TRANSFER_INCOMING", 95, FALSE)
  IN IF parsed = None THEN None
     ELSE [parsed EXCEPT !.direction = "credit",
                         !.sender_phone = search_parenthesised(msg),
                         !.transaction_id = search_digits_after(t, FINANCIAL_TRANSACTION_ID)]

\* returns None when the recipient pattern does not match
_parse_payment_momo_code(msg) ==
  LET t == upper(msg)
      amount_match == search_amount(t, { PAYMENT_OF }, RWF, FALSE)
  IN IF ~search_name_code(t) THEN None
     ELSE ParsedTransaction(amount_match, "PAYMENT", "PAYMENT_PERSONAL", 95, TRUE)

\* the three patterns are tried in turn, the group is (\d+)
_parse_deposit_agent(msg) ==
  LET t == lower(msg)
      rwf == << " ", "rwf" >>
      p1 == search_amount(t, { Words(<< "a", "bank", "deposit", "of" >>) \o << " " >> }, rwf, TRUE)
      p2 == search_amount(t, { Words(<< "bank", "deposit", "of" >>) \o << " " >> }, rwf, TRUE)
      p3 == search_amount(t, { Words(<< "deposit", "of" >>) \o << " " >> }, rwf, TRUE)
      amount_match == IF p1 # << >> THEN p1 ELSE IF p2 # << >> THEN p2 ELSE p3
  IN ParsedTransaction(amount_match, "DEPOSIT", "DEPOSIT_AGENT", 95, FALSE)

_parse_cash_deposit(msg) ==
  ParsedTransaction(search_amount(lower(msg), { << >> }, << " ", "rwf" >>, FALSE),
                    "DEPOSIT", "DEPOSIT_CASH", 90, FALSE)

_parse_bank_transfer(msg) ==
  ParsedTransaction(search_amount(lower(msg), { << >> }, << " ", "rwf" >>, FALSE),
                    "DEPOSIT", "DEPOSIT_BANK_TRANSFER", 90, FALSE)

_parse_generic_deposit(msg) ==
  ParsedTransaction(search_amount(lower(msg), { << >> }, << " ", "rwf" >>, FALSE),
                    "DEPOSIT", "DEPOSIT_OTHER", 80, FALSE)

_parse_deposit_other(msg) ==
  LET message_lower == lower(msg)
  IN IF Contains(message_lower, Words(<< "bank", "deposit" >>)) THEN _parse_deposit_agent(msg)
     ELSE IF Contains(message_lower, Words(<< "cash", "deposit" >>)) THEN _parse_cash_deposit(msg)
     ELSE IF Contains(message_lower, << "transfer" >>) THEN _parse_bank_transfer(msg)
     ELSE _parse_generic_deposit(msg)

\* the group is (\d+); returns None when the recipient pattern does not match
_parse_transfer_mobile(msg) ==
  LET t == upper(msg)
      amount_match == search_amount(t, { << "*165*S*" >> }, RWF, TRUE)
  IN IF ~search_name_phone(t, << "TRANSFER", "RED", " ", "TO", " " >>) THEN None
     ELSE ParsedTransaction(amount_match, "TRANSFER", "TRANSFER_OUTGOING", 95, TRUE)

_parse_airtime_purchase(msg) ==
  ParsedTransaction(search_amount(upper(msg), { PAYMENT_OF }, RWF, FALSE),
                    "PURCHASE", "AIRTIME", 95, FALSE)

_parse_data_bundle_purchase(msg) ==
  ParsedTransaction(search_amount(upper(msg), { TRANSACTION_OF, PAYMENT_OF }, RWF, FALSE),
                    "PURCHASE", "DATA_BUNDLE", 95, FALSE)

_parse_business_payment(msg) ==
  ParsedTransaction(search_amount(upper(msg), { TRANSACTION_OF, PAYMENT_OF }, RWF, FALSE),
                    "PAYMENT", "PAYMENT_BUSINESS", 95, FALSE)

_parse_cash_withdrawal(msg) ==
  ParsedTransaction(search_amount(upper(msg), { << "WITH", "DRAWN", " " >> }, RWF, FALSE),
                    "WITHDRAWAL", "CASH_WITHDRAWAL", 95, FALSE)

_parse_transfer_imbank(msg) ==
  LET t == upper(msg)
  IN ParsedTransaction(search_amount(t, { << "TRANSFER", "RED", " " >> }, RWF, FALSE),
                       "TRANSFER", "TRANSFER_OUTGOING", 95,
                       search_name_phone(t, << "TO", " " >>))

_parse_payment_alternative(msg) ==
  LET t == upper(msg)
  IN ParsedTransaction(search_amount(t, { PAYMENT_OF }, RWF, FALSE),
                       "PAYMENT", "PAYMENT_PERSONAL", 95,
                       search_name_phone(t, << "TO", " " >>))

_parse_failed_transaction(msg) ==
  ParsedTransaction(search_amount(upper(msg), { << "AMOUNT", " " >>, PAYMENT_OF }, RWF, FALSE),
                    "FAILED", "FAILED_TRANSACTION", 90, FALSE)

_parse_reversal(msg) ==
  LET t == upper(msg)
  IN ParsedTransaction(search_amount(t, { << "WITH", " " >> }, RWF, FALSE),
                       "REVERSAL", "REVERSAL", 90,
                       search_name_phone(t, << "TO", " " >>))

_parse_deposit_alternative(msg) ==
  ParsedTransaction(search_amount(upper(msg), { Words(<< "DEPOSIT", "RWF" >>) \o << " " >> },
                                  << >>, FALSE),
                    "DEPOSIT", "DEPOSIT_ALTERNATIVE", 85, FALSE)

_extract_transaction_data(msg, message_type) ==
  CASE message_type = "INCOMING_MONEY" -> _parse_incoming_money(msg)
    [] message_type = "PAYMENT_MOMO_CODE" -> _parse_payment_momo_code(msg)
    [] message_type = "DEPOSIT_AGENT" -> _parse_deposit_agent(msg)
    [] message_type = "DEPOSIT_OTHER" -> _parse_deposit_other(msg)
    [] message_type = "TRANSFER_MOBILE" -> _parse_transfer_mobile(msg)
    [] message_type = "AIRTIME_PURCHASE" -> _parse_airtime_purchase(msg)
    [] message_type = "DATA_BUNDLE_PURCHASE" -> _parse_data_bundle_purchase(msg)
    [] message_type = "BUSINESS_PAYMENT" -> _parse_business_payment(msg)
    [] message_type = "CASH_WITHDRAWAL" -> _parse_cash_withdrawal(msg)
    [] message_type = "TRANSFER_IMBANK" -> _parse_transfer_imbank(msg)
    [] message_type = "PAYMENT_ALTERNATIVE" -> _parse_payment_alternative(msg)
    [] message_type = "FAILED_TRANSACTION" -> _parse_failed_transaction(msg)
    [] message_type = "REVERSAL" -> _parse_reversal(msg)
    [] message_type = "DEPOSIT_ALTERNATIVE" -> _parse_deposit_alternative(msg)
    [] OTHER -> None

\* ---------------------------------------------------------------- messages
\* The amount of a message, as written
AmountTexts ==
  { << "2", "0", "0", "0" >>, << "2", ",", "0", "0", "0" >>, << "0" >>, << "," >> }

\* The phrases a message is made of; a is the text of the amount.
Phrases(a) ==
  { Words(<< "You", "have", "received" >>) \o << " " >> \o a \o << " ", "RWF" >>,
    Words(<< "Your", "payment", "of" >>) \o << " " >> \o a \o << " ", "RWF" >>,
    Words(<< "Your", "payment", "of" >>) \o << " " >> \o a
      \o << " " >> \o Words(<< "RWF", "has", "been", "completed" >>),
    Words(<< "Your", "payment", "of" >>) \o << " " >> \o a
      \o << " " >> \o Words(<< "RWF", "to", "Jane" >>)
      \o << " ", "1", "2", "8", "4", "5", " " >> \o Words(<< "has", "been", "completed" >>),
    Words(<< "Your", "payment", "of" >>) \o << " " >> \o a
      \o << " " >> \o Words(<< "RWF", "to", "Airtime", "has", "been", "completed" >>),
    Words(<< "A", "transaction", "of" >>) \o << " " >> \o a \o << " ", "RWF" >>,
    << "*165*S*" >> \o a \o << " ", "RWF" >>,
    << "with", "drawn", " " >> \o a \o << " ", "RWF" >>,
    << "You", " ", "have", " ", "transfer", "red", " " >> \o a \o << " ", "RWF" >>,
    << "Amount", " " >> \o a \o << " ", "RWF" >>,
    << "with", " " >> \o a \o << " ", "RWF" >>,
    Words(<< "deposit", "RWF" >>) \o << " " >> \o a,
    Words(<< "A", "bank", "deposit", "of" >>) \o << " " >> \o a \o << " ", "RWF" >>,
    Words(<< "Cash", "deposit", "of" >>) \o << " " >> \o a \o << " ", "RWF" >>,
    << "TxId:" >>,
    << "*162*", "TxId:" >>,
    << "Airtime" >>,
    << "Bundle", "s", " ", "and", " ", "Packs" >>,
    << "MTN" >>,
    Words(<< "has", "been", "completed" >>),
    << "*113*R*" >>,
    << "transfer", "red", " ", "to", " ", "Jane" >>,
    << "transfer", "red", " ", "to", " ", "Jane", " ", "(", "2", "5", "0", "7", ")" >>,
    << "*164*S*" >>,
    Words(<< "Data", "Bundle" >>),
    Words(<< "have", "via", "agent:" >>),
    << "imbank.", "bank" >>,
    << "*143*" >>,
    Words(<< "has", "failed" >>),
    Words(<< "reversal", "has", "been", "initiated" >>),
    << "Receiver:" >> }

\* the phrases ps, separated by blanks
RECURSIVE Text(_)
Text(ps) ==
  IF ps = << >> THEN << >>
  ELSE IF Len(ps) = 1 THEN Head(ps)
  ELSE Head(ps) \o << " " >> \o Text(Tail(ps))

PhraseSeqs(a) == UNION { [1..n -> Phrases(a)] : n \in 0..MaxPhrases }

\* the bodies of the SMS elements: the empty string and the texts of up to
\* MaxPhrases phrases
Messages == { Text(ps) : ps \in UNION { PhraseSeqs(a) : a \in AmountTexts } }

\* The incoming-money notification and its variants: the amount, then the
\* sender with the phone, a remark, and the identifier of the transaction
\* (letters and digits, digits only, digits then letters), each part
\* optional.
IncomingParts ==
  << { Words(<< "You", "have", "received" >>) \o << " " >> \o a \o << " ", "RWF" >> :
         a \in { << "5", "0", "0", "0", "0" >>, << "2", ",", "0", "0", "0" >> } },
     { << >>,
       Words(<< "from", "John", "Doe" >>)
         \o << " ", "(", "+", "2", "5", "6", "7", "0", "0", "1", "2", "3", "4", "5", "6", ")" >> },
     { << >>, Words(<< "on", "your", "mobile", "money", "account" >>) \o << "." >> },
     { << >> } \cup
     { Words(<< "Financial", "Transaction", "Id:" >>) \o << " " >> \o id \o << "." >> :
         id \in { << "TXN", "1", "2", "3", "4", "5", "6" >>,
                  << "1", "2", "3", "4", "5", "6" >>,
                  << "1", "2", "AB" >> } } >>

\* the parts that are present, separated by blanks
RECURSIVE Joined(_)
Joined(ps) ==
  IF ps = << >> THEN << >>
  ELSE IF Head(ps) = << >> THEN Joined(Tail(ps))
  ELSE IF Joined(Tail(ps)) = << >> THEN Head(ps)
  ELSE Head(ps) \o << " " >> \o Joined(Tail(ps))

IncomingMessages ==
  { Joined(<< p1, p2, p3, p4 >>) : p1 \in IncomingParts[1], p2 \in IncomingParts[2],
                                   p3 \in IncomingParts[3], p4 \in IncomingParts[4] }

\* ------------------------------------------------------------ parse_message
SampleLength == 100

\* msg[:n]: the first n characters of the text; the atom the cut falls in
\* is cut
RECURSIVE Slice(_, _)
Slice(msg, n) ==
  IF msg = << >> \/ n <= 0 THEN << >>
  ELSE IF Len(Head(msg)) <= n
  THEN << Head(msg) >> \o Slice(Tail(msg), n - Len(Head(msg)))
  ELSE << SubSeq(Head(msg), 1, n) >>

\* message[:100]
Sample(msg) == Slice(msg, SampleLength)

pipeline_vars == << exists, content, edits, faults, processed_files, transactions, users,
                    categories, system_logs, run >>

\* parser = EnhancedMTNParser(); parser.parse_message(body, timestamp)
ParserInit ==
  /\ PipelineInit
  /\ message \in Messages \cup IncomingMessages
  /\ parser = [NewParser EXCEPT !.pc = "identify"]
  /\ CategorizerConstructed

\* message_type = self._identify_message_type(message);
\* if message_type == "UNKNOWN": return None
Identify ==
  /\ parser.pc = "identify"
  /\ LET message_type == _identify_message_type(message)
     IN parser' = [parser EXCEPT !.message_type = message_type,
                                 !.pc = IF message_type = "UNKNOWN" THEN "returned"
                                        ELSE "extract",
                                 !.returned = IF message_type = "UNKNOWN" THEN "None" ELSE ""]
  /\ UNCHANGED message
  /\ UNCHANGED pipeline_vars
  /\ CategorizerUnchanged

\* transaction = self._extract_transaction_data(...): a transaction is
\* counted and returned; without one the error is counted and recorded.
Extract ==
  /\ parser.pc = "extract"
  /\ LET transaction == _extract_transaction_data(message, parser.message_type)
     IN IF transaction # None
        THEN parser' = [parser EXCEPT !.pc = "returned", !.transaction = transaction,
                                      !.parsed_count = @ + 1, !.returned = "transaction"]
        ELSE parser' = [parser EXCEPT !.pc = "returned",
                                      !.error_count = @ + 1,
                                      !.errors = Append(@, Sample(message)),
                                      !.returned = "None"]
  /\ UNCHANGED message
  /\ UNCHANGED pipeline_vars
  /\ CategorizerUnchanged

ParserNext == Identify \/ Extract

ParserSpec == ParserInit /\ [][ParserNext]_vars


\* ==================================================== TransactionCategorizer
\* The categorizer works on Python strings: texts are strings here, read
\* character by character.
Char(t, i) == SubSeq(t, i, i)

\* The letters that str.lower() changes, and what it makes of them
Letters == << "ABCDEFGHIJKLMNOPQRSTUVWXYZ", "abcdefghijklmnopqrstuvwxyz" >>
Digit == { "0", "1", "2", "3", "4", "5", "6", "7", "8", "9" }

\* \w of the regular expressions
WordChar ==
  Digit \cup { "_" } \cup { Char(Letters[2], i) : i \in 1..Len(Letters[2]) }
        \cup { Char(Letters[1], i) : i \in 1..Len(Letters[1]) }

\* str.lower()
LowerCaseOf ==
  [c \in { Char(Letters[1], i) : i \in 1..Len(Letters[1]) } |->
     Char(Letters[2], CHOOSE i \in 1..Len(Letters[1]) : Char(Letters[1], i) = c)]

RECURSIVE text_lower(_)
text_lower(s) ==
  IF s = "" THEN ""
  ELSE LET c == Char(s, 1)
       IN (IF c \in DOMAIN LowerCaseOf THEN LowerCaseOf[c] ELSE c)
            \o text_lower(SubSeq(s, 2, Len(s)))

\* str.strip(), for the blanks
RECURSIVE strip(_)
strip(s) ==
  IF s = "" THEN ""
  ELSE IF Char(s, 1) = " " THEN strip(SubSeq(s, 2, Len(s)))
  ELSE IF Char(s, Len(s)) = " " THEN strip(SubSeq(s, 1, Len(s) - 1))
  ELSE s

\* The positions from `from` on where the literal k stands in t
Occurrences(k, t, from) ==
  { i \in from..(Len(t) - Len(k) + 1) : SubSeq(t, i, i + Len(k) - 1) = k }

\* keyword in text
In(k, t) == Occurrences(k, t, 1) # {}

\* any(word in text for word in words)
AnyIn(words, t) == \E k \in 1..Len(words) : In(words[k], t)

\* The positions after the last literal, for the literals of a pattern
\* "a.*b.*c" found in this order
RECURSIVE Ends(_, _, _)
Ends(literals, t, from) ==
  IF literals = << >> THEN { from }
  ELSE UNION { Ends(Tail(literals), t, i + Len(Head(literals))) :
                 i \in Occurrences(Head(literals), t, from) }

DigitAt(t, i) == i \in 1..Len(t) /\ Char(t, i) \in Digit

\* (\d+) from position i: the digits that follow
RECURSIVE DigitsFrom(_, _)
DigitsFrom(t, i) ==
  IF DigitAt(t, i) THEN Char(t, i) \o DigitsFrom(t, i + 1) ELSE ""

Least(S) == CHOOSE i \in S : \A j \in S : i <= j

\* re.search(r'\b' + re.escape(keyword) + r'\b', text): a \b stands
\* between the characters i and i + 1 when one of them only is a \w
WordMatch(keyword, t) ==
  LET w(j) == j \in 1..Len(t) /\ Char(t, j) \in WordChar
      Boundary(i) == w(i) # w(i + 1)
  IN \E i \in Occurrences(keyword, t, 1) :
       Boundary(i - 1) /\ Boundary(i + Len(keyword) - 1)

\* re.search(r"External Transaction Id: (\d+)", original_data)
personal_id_match(t) ==
  LET EXTERNAL_TRANSACTION_ID == "External Transaction Id: "
      S == { i \in Occurrences(EXTERNAL_TRANSACTION_ID, t, 1) :
               DigitAt(t, i + Len(EXTERNAL_TRANSACTION_ID)) }
  IN IF S = {} THEN ""
     ELSE DigitsFrom(t, Least(S) + Len(EXTERNAL_TRANSACTION_ID))

\* (\+?25[06]\d{9}|\d{9,10}) at position p: the ends of the alternatives in
\* the order the matcher tries them
PhoneEnds(t, p) ==
  LET AllDigits(s, i, n) == \A j \in i..(i + n - 1) : DigitAt(s, j)
      national(q) == /\ SubSeq(t, q, q + 1) = "25"
                     /\ Char(t, q + 2) \in { "0", "6" }
                     /\ AllDigits(t, q + 3, 9)
      room(n) == p + n - 1 <= Len(t)
  IN (IF room(13) /\ Char(t, p) = "+" /\ national(p + 1) THEN << p + 13 >> ELSE << >>)
     \o (IF room(12) /\ national(p) THEN << p + 12 >> ELSE << >>)
     \o (IF room(10) /\ AllDigits(t, p, 10) THEN << p + 10 >> ELSE << >>)
     \o (IF room(9) /\ AllDigits(t, p, 9) THEN << p + 9 >> ELSE << >>)

\* re.search(r"transferred to (.+?) \((\+?25[06]\d{9}|\d{9,10})\) from (\d+)",
\* original_data): the groups of the first match, << >> without a match
transfer_match(t) ==
  LET TRANSFERRED_TO == "transferred to "
      CLOSE_FROM == ") from "
      tail(e) == /\ e + Len(CLOSE_FROM) <= Len(t)
                 /\ SubSeq(t, e, e + Len(CLOSE_FROM) - 1) = CLOSE_FROM
                 /\ DigitAt(t, e + Len(CLOSE_FROM))
      good(j) == { k \in 1..Len(PhoneEnds(t, j + 2)) : tail(PhoneEnds(t, j + 2)[k]) }
      opens(i) == { j \in Occurrences(" (", t, i + Len(TRANSFERRED_TO) + 1) : good(j) # {} }
      starts == { i \in Occurrences(TRANSFERRED_TO, t, 1) : opens(i) # {} }
  IN IF starts = {} THEN << >>
     ELSE LET i == Least(starts)
              j == Least(opens(i))
              e == PhoneEnds(t, j + 2)[Least(good(j))]
          IN << SubSeq(t, i + Len(TRANSFERRED_TO), j - 1),
                SubSeq(t, j + 2, e - 1),
                DigitsFrom(t, e + Len(CLOSE_FROM)) >>

\* A transaction dictionary; "" stands for a key that is absent
Transaction(type, original_data, amount, phone) ==
  [type |-> type, original_data |-> original_data, amount |-> amount, phone |-> phone,
   category |-> "", recipient_name |-> "", personal_id |-> ""]

\* TransactionCategorizer._categorize_by_sms_patterns: the pair it returns
\* (confidence in hundredths, "" for None) and the dictionary as it leaves it
_categorize_by_sms_patterns(transaction) ==
  LET original_data == transaction.original_data
      nothing == [returns |-> << "", 0 >>, transaction |-> transaction]
  IN IF original_data = "" THEN nothing
     ELSE IF Ends(<< "*164*S*Y'ello,A transaction of", "by Data Bundle MTN" >>,
                  original_data, 1) # {}
     THEN [returns |-> << "DATA_BUNDLE", 95 >>,
           transaction |->
             [transaction EXCEPT !.type = "Purchase", !.category = "DATA_BUNDLE",
                                 !.recipient_name = "Self",
                                 !.personal_id = IF personal_id_match(original_data) # ""
                                                 THEN personal_id_match(original_data)
                                                 ELSE @]]
     ELSE IF \E e \in Ends(<< "*165*S*", "transferred to", "from " >>, original_data, 1) :
               DigitAt(original_data, e)
     THEN LET m == transfer_match(original_data)
          IN [returns |-> << "TRANSFER", 95 >>,
              transaction |->
                IF m # << >>
                THEN [transaction EXCEPT !.recipient_name = strip(m[1]),
                                         !.personal_id = m[3],
                                         !.phone = m[2],
                                         !.type = "Transfer"]
                ELSE [transaction EXCEPT !.type = "Transfer"]]
     ELSE IF Ends(<< "You have deposited", "to your account" >>, original_data, 1) # {}
     THEN [returns |-> << "DEPOSIT", 95 >>,
           transaction |->
             [transaction EXCEPT !.type = "Deposit", !.recipient_name = "Self",
                                 !.personal_id = "Self"]]
     ELSE nothing

\* TransactionCategorizer._calculate_category_score, in tenths: 1.0 for the
\* keyword in the text, 0.5 for the keyword between word boundaries, 0.3
\* for the keyword in the text once more
RECURSIVE keyword_score(_, _)
keyword_score(text_lowered, keywords) ==
  IF keywords = << >> THEN 0
  ELSE LET keyword == Head(keywords)
           found == In(keyword, text_lowered)
       IN (IF found THEN 10 ELSE 0)
          + (IF found /\ WordMatch(keyword, text_lowered) THEN 5 ELSE 0)
          + (IF found THEN 3 ELSE 0)
          + keyword_score(text_lowered, Tail(keywords))

_calculate_category_score(text, keywords) ==
  IF text = "" \/ keywords = << >> THEN 0
  ELSE keyword_score(text_lower(text), keywords)

\* TransactionCategorizer._categorize_by_amount, confidence in tenths
_categorize_by_amount(amount, text) ==
  LET t == text_lower(text)
  IN IF amount <= 0 THEN << "", 0 >>
     ELSE IF AnyIn(<< "data bundle", "data_bundle", "bundle", "internet", "data",
                      "mtn data", "yello", "*164*" >>, t)
     THEN << "DATA_BUNDLE", 9 >>
     ELSE IF AnyIn(<< "airtime", "credit", "topup", "recharge" >>, t)
     THEN << "AIRTIME", 8 >>
     ELSE IF amount < 1000
     THEN IF AnyIn(<< "balance", "query", "statement", "check" >>, t)
          THEN << "QUERY", 8 >> ELSE << "OTHER", 3 >>
     ELSE IF amount < 100000
     THEN IF AnyIn(<< "deposit", "credit", "receive" >>, t) THEN << "DEPOSIT", 6 >>
          ELSE IF AnyIn(<< "withdraw", "debit", "send" >>, t) THEN << "WITHDRAWAL", 6 >>
          ELSE << "TRANSFER", 4 >>
     ELSE IF AnyIn(<< "payment", "bill", "merchant", "utility" >>, t)
     THEN << "PAYMENT", 7 >>
     ELSE << "TRANSFER", 5 >>

\* str.startswith
startswith(s, prefix) == Len(s) >= Len(prefix) /\ SubSeq(s, 1, Len(prefix)) = prefix

\* TransactionCategorizer._categorize_by_phone, confidence in tenths
_categorize_by_phone(phone, text) ==
  LET t == text_lower(text)
  IN IF phone = "" THEN << "", 0 >>
     ELSE IF /\ startswith(phone, "+256700") \/ startswith(phone, "+256701")
             /\ AnyIn(<< "payment", "bill", "merchant" >>, t)
     THEN << "PAYMENT", 6 >>
     ELSE IF startswith(phone, "+256700") /\ AnyIn(<< "bank", "account" >>, t)
     THEN << "TRANSFER", 5 >>
     ELSE << "", 0 >>

\* ' '.join(str(field) for field in text_fields if field).lower(): of the
\* five fields, type and original_data are the ones the dictionaries carry
combined_text(transaction) ==
  text_lower(IF transaction.type = "" THEN transaction.original_data
             ELSE IF transaction.original_data = "" THEN transaction.type
             ELSE transaction.type \o " " \o transaction.original_data)

\* category_scores[category] = category_scores.get(category, 0) + confidence
\* on the dictionary kept as the sequence of its items
Accumulate(scores, found) ==
  IF found[1] = "" \/ found[2] <= 0 THEN scores
  ELSE IF \E k \in 1..Len(scores) : scores[k][1] = found[1]
  THEN [k \in 1..Len(scores) |->
          IF scores[k][1] = found[1] THEN << scores[k][1], scores[k][2] + found[2] >>
          ELSE scores[k]]
  ELSE Append(scores, found)

\* The dictionary category_scores of _determine_category, in tenths: the
\* keyword scores above zero in the order of TRANSACTION_CATEGORIES, then
\* the amount heuristic, then the phone heuristic
RECURSIVE keyword_scores(_, _)
keyword_scores(text, items) ==
  IF items = << >> THEN << >>
  ELSE LET score == _calculate_category_score(text, lists[Head(items)[2]])
       IN (IF score > 0 THEN << << Head(items)[1], score >> >> ELSE << >>)
          \o keyword_scores(text, Tail(items))

category_scores(transaction) ==
  LET text == combined_text(transaction)
  IN Accumulate(Accumulate(keyword_scores(text, TRANSACTION_CATEGORIES),
                           _categorize_by_amount(transaction.amount, text)),
                _categorize_by_phone(transaction.phone, text))

\* min(category_scores[best_category] / 2.0, 1.0), in hundredths
normalize(score) == IF score * 5 < 100 THEN score * 5 ELSE 100

\* The scoring part of _determine_category, without the SMS patterns;
\* max(category_scores, key=category_scores.get) is the first item of the
\* highest score
determine_by_scores(transaction) ==
  LET scores == category_scores(transaction)
      best_category ==
        scores[Least({ k \in 1..Len(scores) :
                         \A j \in 1..Len(scores) : scores[j][2] <= scores[k][2] })]
  IN [returns |-> IF scores # << >>
                  THEN << best_category[1], normalize(best_category[2]) >>
                  ELSE << "UNKNOWN", 0 >>,
      transaction |-> transaction]

\* _determine_category without the SMS patterns
_determine_category_by_scores_only(transaction) == determine_by_scores(transaction)

\* TransactionCategorizer._determine_category: the pair it returns
\* (confidence in hundredths) and the dictionary as it leaves it
_determine_category(transaction) ==
  LET sms == _categorize_by_sms_patterns(transaction)
  IN IF sms.returns[1] # "" /\ sms.returns[2] > 80 THEN sms
     ELSE determine_by_scores(sms.transaction)

\* TransactionCategorizer.get_category_rules: the items of the copy, each
\* with the content of its list
get_category_rules ==
  [k \in 1..Len(TRANSACTION_CATEGORIES) |->
     << TRANSACTION_CATEGORIES[k][1], lists[TRANSACTION_CATEGORIES[k][2]] >>]

\* category in TRANSACTION_CATEGORIES, and TRANSACTION_CATEGORIES[category]
Has(items, category) == \E k \in 1..Len(items) : items[k][1] = category
Of(items, category) == items[CHOOSE k \in 1..Len(items) : items[k][1] = category][2]

\* TRANSACTION_CATEGORIES[category] = list: the key keeps its place, a new
\* key goes to the end
Assigned(items, category, list) ==
  IF Has(items, category)
  THEN [k \in 1..Len(items) |-> IF items[k][1] = category THEN << category, list >>
                                ELSE items[k]]
  ELSE Append(items, << category, list >>)

\* The inputs of the calls
OriginalData ==
  { "",
    "hello",
    "credit",
    "Some random transaction data",
    "You have deposited 5000 RWF to your account. payment bill",
    "*165*S*5000 RWF transferred to Jane Doe (250791666666) from 36521838",
    "*165*S*2000 RWF transferred to Jane from 36521838",
    "*164*S*Y'ello,A transaction of 2000 RWF by Data Bundle MTN. External Transaction Id: 123",
    "Your payment of 1000 RWF to Airtime has been completed",
    "bank deposit special" }
\* The dictionaries: the pairs << type, original_data >>, the amounts on
\* both sides of the thresholds, without and with a phone number
Transactions ==
  { Transaction(data[1], data[2], amount, phone) :
      data \in { << "", d >> : d \in OriginalData } \cup { << "Transfer", "hello" >> },
      amount \in { 0, 500, 5000, 200000 },
      phone \in { "", "+256700123456" } }
RuleCategories == { "DEPOSIT", "TRANSFER", "CUSTOM" }

\* The list objects a caller can pass: the ones it holds and the ones it
\* got from get_category_rules for the categories above
Passable ==
  HeldByCaller \cup { TRANSACTION_CATEGORIES[k][2] :
                       k \in { j \in 1..Len(TRANSACTION_CATEGORIES) :
                                 TRANSACTION_CATEGORIES[j][1] \in RuleCategories } }

\* One more call of the categorizer
Called(op, category, keywords, transaction, returned) ==
  [calls |-> categorizer.calls + 1, op |-> op, category |-> category,
   keywords |-> keywords, before |-> get_category_rules,
   transaction |-> transaction, returned |-> returned]

\* categorizer.categorize_transaction(transaction)
CategorizeTransaction(transaction) ==
  /\ categorizer.calls < MaxCalls
  /\ LET determined == _determine_category(transaction)
     IN categorizer' = Called("categorize_transaction", "", << >>,
                              << transaction, determined.transaction >>,
                              determined.returns)
  /\ UNCHANGED << TRANSACTION_CATEGORIES, lists >>
  /\ UNCHANGED pipeline_vars
  /\ ParserUnchanged

\* categorizer.add_custom_rule(category, keywords)
AddCustomRule(category, keywords) ==
  /\ categorizer.calls < MaxCalls
  /\ LET created == ~Has(TRANSACTION_CATEGORIES, category)
         items == IF created THEN Assigned(TRANSACTION_CATEGORIES, category, CreatedList)
                  ELSE TRANSACTION_CATEGORIES
         list == Of(items, category)
     IN /\ TRANSACTION_CATEGORIES' = items
        /\ lists' = [lists EXCEPT ![list] = @ \o lists[keywords]]
  /\ categorizer' = Called("add_custom_rule", category, lists[keywords], << >>, << >>)
  /\ UNCHANGED pipeline_vars
  /\ ParserUnchanged

\* categorizer.update_category_rule(category, keywords)
UpdateCategoryRule(category, keywords) ==
  /\ categorizer.calls < MaxCalls
  /\ TRANSACTION_CATEGORIES' = Assigned(TRANSACTION_CATEGORIES, category, keywords)
  /\ categorizer' = Called("update_category_rule", category, lists[keywords], << >>, << >>)
  /\ UNCHANGED lists
  /\ UNCHANGED pipeline_vars
  /\ ParserUnchanged

CategorizerNext ==
  \/ \E transaction \in Transactions : CategorizeTransaction(transaction)
  \/ \E category \in RuleCategories, keywords \in Passable : AddCustomRule(category, keywords)
  \/ \E category \in RuleCategories, keywords \in Passable :
       UpdateCategoryRule(category, keywords)

CategorizerSpec == Init /\ [][CategorizerNext]_vars


\* ================================================================ claims
Bodies(rows) == { rows[k].original_message : k \in 1..Len(rows) }

\* The rows of table transactions that invocation r committed.
RowsOf(r) == SubSeq(transactions, run[r].rows0 + 1, run[r].rows0 + run[r].inserted)

\* Invocation r follows invocation r - 1 on the same file, and the file
\* has the same content as when invocation r - 1 looked at it.
Rerun(r) ==
  /\ r > 1
  /\ run[r].chk.made
  /\ run[r - 1].pc = "done"
  /\ run[r].file = run[r - 1].file
  /\ run[r].seen = run[r - 1].seen

\* C1 as stated: should_process_file(f) returns true if and only if no
\* processed_files record exists for f or the current (size, hash) pair of
\* the file differs from the stored pair.
C1_Original ==
  \A r \in Runs : run[r].chk.made =>
    (run[r].chk.decision <=> (~run[r].chk.present \/ ~run[r].chk.match))

\* C1 amended: for an existing file whose tracker queries do not raise,
\* should_process_file returns true if and only if no record exists or the
\* (size, hash) pair differs; it returns false for a path where no file
\* exists, and true for an existing file when a query raises.
C1_ShouldProcess ==
  \A r \in Runs : run[r].chk.made =>
    /\ (run[r].chk.exists /\ ~run[r].chk.raised) =>
         (run[r].chk.decision <=> (~run[r].chk.present \/ ~run[r].chk.match))
    /\ ~run[r].chk.exists => ~run[r].chk.decision
    /\ (run[r].chk.exists /\ run[r].chk.raised) => run[r].chk.decision

\* an existing file with a record is found changed: same size, other hash
C1_Witness ==
  \E r \in Runs :
    /\ run[r].chk.made /\ run[r].chk.exists /\ ~run[r].chk.raised
    /\ run[r].chk.present /\ run[r].chk.decision
    /\ st_size(run[r].seen) = run[r].pre.file_size
    /\ run[r].pc = "parse"

Appended(s, t) ==
  /\ Len(t) > Len(s)
  /\ SubSeq(t, 1, Len(s)) = s

C5_RetryAfterFailure ==
  \A r \in Runs :
    ( /\ Rerun(r)
      /\ run[r - 1].aborted
      /\ run[r - 1].status = "error"
      /\ run[r - 1].marked = "FAILED" )
    => run[r].chk.decision

Parsable(c) == Cardinality({ k \in 1..Len(c) : c[k].parse = "ok" })

IsPrefix(s, t) == Len(s) <= Len(t) /\ \A k \in 1..Len(s) : t[k] = s[k]

C12_SkippedOnlyWhenUnchanged ==
  \A r \in Runs :
    run[r].pc = "done" /\ run[r].chk.made
    => /\ run[r].status \in {"success", "warning", "error", "skipped"}
       /\ run[r].status = "skipped"
          => /\ run[r].chk.exists
             /\ run[r].chk.present
             /\ run[r].chk.match

\* C13: a run that the Change Tracker skips reads no message and writes
\* nothing: the step that returns 'skipped' hands no SMS element to the
\* parser and leaves the tables transactions, users,
\* transaction_categories, system_logs and processed_files unchanged.
C13_SkippedIsNoOp ==
  [][\A r \in Runs :
       (run[r].pc = "check" /\ run'[r].pc = "done" /\ run'[r].status = "skipped")
       => /\ run'[r].sms_read = 0
          /\ run'[r].db_transactions = << >>
          /\ UNCHANGED << transactions, users, categories, system_logs, processed_files >>]_vars

\* An invocation was skipped on a file that an earlier invocation loaded
\* rows from.
C13_Witness ==
  \E r \in Runs :
    /\ run[r].pc = "done"
    /\ run[r].status = "skipped"
    /\ run[r].chk.present
    /\ processed_files[run[r].file].records_processed > 0
    /\ Len(transactions) > 0

\* The 14 recognised kinds
RecognisedKinds ==
  { "INCOMING_MONEY", "AIRTIME_PURCHASE", "DATA_BUNDLE_PURCHASE", "BUSINESS_PAYMENT",
    "PAYMENT_MOMO_CODE", "DEPOSIT_AGENT", "DEPOSIT_OTHER", "TRANSFER_MOBILE",
    "CASH_WITHDRAWAL", "TRANSFER_IMBANK", "PAYMENT_ALTERNATIVE", "FAILED_TRANSACTION",
    "REVERSAL", "DEPOSIT_ALTERNATIVE" }

\* the branches of the chain whose trigger holds for the message
Triggered(msg) == { i \in 1..Len(rule_kinds) : rule_triggers(msg)[i] }

Classified == parser.pc # "identify"

\* C14: _identify_message_type is total. For every message, the empty one
\* included, classification ends (the parser leaves the identify step without
\* an exception) with exactly one kind, which is one of the 14 recognised
\* kinds or UNKNOWN, and it is UNKNOWN exactly when no rule's trigger holds.
C14_ClassifierTotal ==
  /\ Cardinality(RecognisedKinds) = 14
  /\ _identify_message_type(message) \in RecognisedKinds \cup { "UNKNOWN" }
  /\ Classified =>
       /\ parser.message_type = _identify_message_type(message)
       /\ parser.message_type \in RecognisedKinds \cup { "UNKNOWN" }
       /\ (Triggered(message) = {}) => parser.message_type = "UNKNOWN"
       /\ (Triggered(message) # {}) => parser.message_type \in RecognisedKinds

\* the empty message has been classified, as UNKNOWN
C14_Witness ==
  /\ Classified
  /\ message = << >>
  /\ Triggered(message) = {}
  /\ parser.message_type = "UNKNOWN"

\* The order of the rules, as the kinds they give
PriorityList ==
  << "INCOMING_MONEY", "AIRTIME_PURCHASE", "DATA_BUNDLE_PURCHASE", "BUSINESS_PAYMENT",
     "PAYMENT_MOMO_CODE", "DEPOSIT_AGENT", "DEPOSIT_OTHER", "TRANSFER_MOBILE",
     "DATA_BUNDLE_PURCHASE", "BUSINESS_PAYMENT", "CASH_WITHDRAWAL", "TRANSFER_IMBANK",
     "PAYMENT_ALTERNATIVE", "FAILED_TRANSACTION", "REVERSAL", "DEPOSIT_ALTERNATIVE" >>

Earliest(S) == CHOOSE i \in S : \A j \in S : i <= j

Carries(msg, ws) == Contains(upper(msg), ws)

Marker162(msg) == Carries(msg, << "*162*", "TXID:" >>)

AirtimeKeyword(msg) == Carries(msg, << "AIRTIME" >>)

BundleKeyword(msg) == Carries(msg, << "BUNDLE", "S", " ", "AND", " ", "PACKS" >>)

BusinessKeyword(msg) ==
  Carries(msg, << "ONAFRIQ" >>) \/ Carries(msg, << "ESICIA" >>) \/ Carries(msg, << "MTN" >>)

\* C15: classification is first-match-wins over the fixed priority list: a
\* message that satisfies the triggers of one or several rules gets the kind
\* of the earliest of them. In particular a message with the "*162*TxId:"
\* marker (and not an incoming-money text) is classified by its secondary
\* keyword as airtime, data bundle or business payment, in that order, and is
\* a PAYMENT_MOMO_CODE only when none of these keywords is present.
C15_FirstMatchWins ==
  Classified =>
    /\ (Triggered(message) # {}) =>
         parser.message_type = PriorityList[Earliest(Triggered(message))]
    /\ (Marker162(message) /\ 1 \notin Triggered(message)) =>
         /\ AirtimeKeyword(message) => parser.message_type = "AIRTIME_PURCHASE"
         /\ (~AirtimeKeyword(message) /\ BundleKeyword(message)) =>
              parser.message_type = "DATA_BUNDLE_PURCHASE"
         /\ (~AirtimeKeyword(message) /\ ~BundleKeyword(message) /\ BusinessKeyword(message)) =>
              parser.message_type = "BUSINESS_PAYMENT"
    /\ (Marker162(message) /\ parser.message_type = "PAYMENT_MOMO_CODE") =>
         ~(AirtimeKeyword(message) \/ BundleKeyword(message) \/ BusinessKeyword(message))

\* a "*162*TxId:" payment to Airtime satisfies the airtime rule and the
\* generic payment rule, and is classified as airtime
C15_Witness ==
  /\ Classified
  /\ Marker162(message)
  /\ { 2, 5 } \subseteq Triggered(message)
  /\ parser.message_type = "AIRTIME_PURCHASE"

Returned == parser.pc = "returned"

\* C16 (refuted by the code): whenever parse_message returns a transaction
\* its amount is strictly greater than zero and its confidence is within
\* [0, 1] (0..100 hundredths). The extractors convert the matched amount
\* with float() and never compare it with zero.
C16_AmountPositive ==
  (Returned /\ parser.returned = "transaction") =>
    /\ parser.transaction.amount > 0
    /\ parser.transaction.confidence \in 0..100

\* the amount pattern gave the group g and float() converts it
AmountParsed(g) == g # << >> /\ float(replace_commas(g)) # -1

\* C17 (refuted by the code): an extractor returns no transaction only when
\* the amount cannot be parsed; a missing counterparty leaves the field
\* absent. Stated for PAYMENT_MOMO_CODE and TRANSFER_MOBILE: when
\* parse_message returns None for a message of one of these kinds, the
\* kind's amount pattern did not match or its group is not a number.
C17_FailsOnlyWithoutAmount ==
  (Returned /\ parser.returned = "None") =>
    /\ (parser.message_type = "PAYMENT_MOMO_CODE") =>
         ~AmountParsed(search_amount(upper(message), { PAYMENT_OF }, RWF, FALSE))
    /\ (parser.message_type = "TRANSFER_MOBILE") =>
         ~AmountParsed(search_amount(upper(message), { << "*165*S*" >> }, RWF, TRUE))

\* the message with the separators of its amount removed
WithoutSeparators(msg) == replace_commas(msg)

\* C18 (refuted by the code): for every kind, an amount written with comma
\* thousands separators is accepted and parsed to the same value as the
\* amount written without them: when the message without the separators is
\* of the same kind and gives a transaction, the message gives the same
\* transaction.
C18_SeparatorsAccepted ==
  (Returned /\ parser.message_type # "UNKNOWN") =>
    LET plain == WithoutSeparators(message)
        expected == _extract_transaction_data(plain, parser.message_type)
    IN (_identify_message_type(plain) = parser.message_type /\ expected # None) =>
         /\ parser.returned = "transaction"
         /\ parser.transaction = expected

\* C19 (refuted by the code): a message classified UNKNOWN is dropped
\* without an exception and is counted: when parse_message has returned for
\* it, no transaction is returned and a failure counter of the parser has
\* increased by one.
C19_UnknownCounted ==
  (Returned /\ parser.message_type = "UNKNOWN") =>
    /\ parser.returned = "None"
    /\ parser.transaction = None
    /\ parser.error_count = 1 \/ Len(parser.errors) = 1

\* the messages of c whose kind matched and whose extraction failed
ExtractionFailures(c) == Cardinality({ k \in 1..Len(c) : c[k].parse = "fail" })

Succeeded(r) == run[r].pc = "done" /\ run[r].status = "success"

ExampleBody ==
  Words(<< "You", "have", "received" >>) \o << " ", "5", "0", "0", "0", "0", " ", "RWF", " " >>
    \o Words(<< "from", "John", "Doe" >>)
    \o << " ", "(", "+", "2", "5", "6", "7", "0", "0", "1", "2", "3", "4", "5", "6", ")", " " >>
    \o Words(<< "on", "your", "mobile", "money", "account" >>) \o << ".", " " >>
    \o Words(<< "Financial", "Transaction", "Id:" >>)
    \o << " ", "TXN", "1", "2", "3", "4", "5", "6", "." >>

\* letters and digits
Alphanumeric == Digits \cup { "TXN", "AB" }

\* the identifier that follows 'Financial Transaction Id: ' in the text,
\* << >> when the text has none
IdentifierAfter(msg) ==
  LET lit == Words(<< "Financial", "Transaction", "Id:" >>) \o << " " >>
      at == { k \in 1..Len(msg) : MatchAt(msg, k, lit) }
  IN IF at = {} THEN << >>
     ELSE LET k == (CHOOSE h \in at : \A g \in at : h <= g) + Len(lit)
          IN SubSeq(msg, k, k + RunLength(msg, k, Alphanumeric) - 1)

\* C21 (refuted by the code): the example body gives kind INCOMING_MONEY,
\* amount 50000, direction credit, the phone '+256700123456', transaction id
\* 'TXN123456' and category TRANSFER_INCOMING; and every incoming-money
\* transaction carries as transaction_id the identifier that follows
\* 'Financial Transaction Id:' in its text, numeric or alphanumeric.
C21_IncomingExample ==
  /\ (Returned /\ message = ExampleBody) =>
       /\ parser.message_type = "INCOMING_MONEY"
       /\ parser.returned = "transaction"
       /\ parser.transaction.amount = 50000 * 100
       /\ parser.transaction.direction = "credit"
       /\ parser.transaction.sender_phone =
            << "+", "2", "5", "6", "7", "0", "0", "1", "2", "3", "4", "5", "6" >>
       /\ parser.transaction.category = "TRANSFER_INCOMING"
       /\ parser.transaction.transaction_id = << "TXN", "1", "2", "3", "4", "5", "6" >>
  /\ (Returned /\ parser.message_type = "INCOMING_MONEY" /\ parser.returned = "transaction") =>
       parser.transaction.transaction_id = IdentifierAfter(message)

C28_WarningIsNotRecorded ==
  \A r \in Runs :
    (Latest(r) /\ run[r].pc = "done" /\ run[r].status = "warning") =>
      /\ Len(transactions) = run[r].rows0
      /\ Len(system_logs) = run[r].logs0
      /\ processed_files[run[r].file] = run[r].pre
      /\ (exists[run[r].file] /\ content[run[r].file] = run[r].seen) =>
           should_process_file(run[r].file, FALSE, FALSE)

\* the transactions of the batch that load_transactions did not count as
\* errors
NotInError(me) ==
  { me.db_transactions[k] :
      k \in { j \in 1..Len(me.db_transactions) : ~InSeq(j, me.errors) } }

C30_TrackerFailsOpen ==
  /\ [](\A r \in Runs :
          (run[r].chk.made /\ run[r].chk.raised /\ run[r].chk.exists) =>
            run[r].chk.decision)
  /\ [][ \A r \in Runs :
           (run[r].pc \in {"mark", "except"} /\ run'[r].pc = "done"
              /\ run'[r].marked = "no") =>
             /\ processed_files' = processed_files
             /\ run'[r].status = IF run[r].pc = "mark" THEN "success" ELSE "error" ]_vars

\* the query of a tracker method raised for a file whose record matches its
\* content, and the file is processed; later the marking of the file failed
C30_Witness ==
  \E r \in Runs :
    /\ run[r].pc = "done"
    /\ run[r].chk.made /\ run[r].chk.raised /\ run[r].chk.present /\ run[r].chk.match
    /\ run[r].chk.decision
    /\ run[r].marked = "no"
    /\ processed_files[run[r].file] = run[r].pre

\* The invocation r is at the gate of an existing archive that has no
\* FileProcessingRecord and holds a message the parser extracts.
AtGateOfNewArchive(r) ==
  /\ run[r].pc = "check"
  /\ exists[run[r].file]
  /\ ~processed_files[run[r].file].present
  /\ Parsable(content[run[r].file]) > 0

\* The invocation r returned 'success' for as many records as the parser
\* gave transactions, and the file is marked SUCCESS with the number of
\* records the loader reports.
ReturnedSuccess(r) ==
  /\ run[r].pc = "done"
  /\ run[r].status = "success"
  /\ run[r].summary.total_parsed = Parsable(run[r].seen)
  /\ run[r].marked = "SUCCESS"
  /\ processed_files[run[r].file].processing_status = "SUCCESS"
  /\ processed_files[run[r].file].records_processed = run[r].successfully_loaded
  /\ run[r].summary.successfully_loaded = run[r].successfully_loaded

Categorized == categorizer.op = "categorize_transaction"

\* The scores and the SMS pattern of the dictionary of the last call
ScoresOfCall == category_scores(categorizer.transaction[1])
PatternOfCall == _categorize_by_sms_patterns(categorizer.transaction[1]).returns[1]

Highest(scores, category) ==
  \E k \in 1..Len(scores) :
    /\ scores[k][1] = category
    /\ \A j \in 1..Len(scores) : scores[j][2] <= scores[k][2]

\* C22 as stated: _determine_category returns the category with the
\* highest accumulated score (keyword, amount and phone heuristics), returns
\* ('UNKNOWN', 0.0) when no rule scores above zero, and every returned
\* confidence lies in [0, 1].
C22_Original ==
  Categorized =>
    /\ ScoresOfCall # << >> => Highest(ScoresOfCall, categorizer.returned[1])
    /\ ScoresOfCall = << >> => categorizer.returned = << "UNKNOWN", 0 >>
    /\ categorizer.returned[2] \in 0..100

\* C22 amended: when one of the three SMS patterns is found in
\* original_data, _determine_category returns the category of the first
\* such pattern with confidence 0.95, whatever the scores are; otherwise it
\* returns the category with the highest accumulated score with half that
\* score, at most 1.0, as confidence, and ('UNKNOWN', 0.0) when no rule
\* scores above zero; every returned confidence lies in [0, 1].
C22_HighestScoreUnlessPattern ==
  Categorized =>
    /\ categorizer.returned[2] \in 0..100
    /\ PatternOfCall # "" => categorizer.returned = << PatternOfCall, 95 >>
    /\ (PatternOfCall = "" /\ ScoresOfCall # << >>) =>
         /\ Highest(ScoresOfCall, categorizer.returned[1])
         /\ \E k \in 1..Len(ScoresOfCall) :
              /\ ScoresOfCall[k][1] = categorizer.returned[1]
              /\ categorizer.returned[2] = normalize(ScoresOfCall[k][2])
    /\ (PatternOfCall = "" /\ ScoresOfCall = << >>) =>
         categorizer.returned = << "UNKNOWN", 0 >>

\* without a pattern, several categories score and the one returned is not
\* the first of them
C22_Witness ==
  /\ Categorized
  /\ PatternOfCall = ""
  /\ Len(ScoresOfCall) >= 2
  /\ categorizer.returned[1] # ScoresOfCall[1][1]
  /\ Highest(ScoresOfCall, categorizer.returned[1])

\* C23 (refuted by the code): after add_custom_rule(c, ks) the rules for c
\* contain every keyword of ks and every keyword c had before; after
\* update_category_rule(c, ks) the rules for c equal exactly ks; the rules
\* of every other category are unchanged by either operation.
C23_RulesReflectOperations ==
  LET now == get_category_rules
      was == categorizer.before
      c == categorizer.category
      ks == categorizer.keywords
      elems(s) == { s[k] : k \in 1..Len(s) }
      others == \A k \in 1..Len(was) :
                  was[k][1] # c => /\ Has(now, was[k][1])
                                   /\ Of(now, was[k][1]) = was[k][2]
  IN /\ categorizer.op = "add_custom_rule" =>
          /\ Has(now, c)
          /\ elems(ks) \subseteq elems(Of(now, c))
          /\ Has(was, c) => elems(Of(was, c)) \subseteq elems(Of(now, c))
          /\ others
     /\ categorizer.op = "update_category_rule" =>
          /\ Has(now, c)
          /\ Of(now, c) = ks
          /\ others

====
